---- MODULE Spec2Model ----
(***************************************************************************)
(* ytogether2: peer session + playback-state synchronisation.              *)
(*                                                                         *)
(* Spec      the Sync Engine of the guest's page (VideoSync.vue, the        *)
(*           second <script setup>, lines 424-740) over the data channel   *)
(*           of src/src/utils/peerService.js, facing an arbitrary remote   *)
(*           peer and an arbitrary user.                                   *)
(* SpecPair  the host's and the guest's Sync Engines connected to each     *)
(*           other, the users idle.                                        *)
(* SpecRoom  one page from mount: the Room controller (Room.vue) driving   *)
(*           the Session Endpoint, in its ScaleDrone/WebRTC build          *)
(*           (src/src/utils/peerService.js) or its PeerJS build            *)
(*           (src/unnamed/part_001), under arbitrary transport events.     *)
(* SpecChat  the Chat Replicator (Chat.vue) of one page after the          *)
(*           handshake, facing an arbitrary remote peer and user.          *)
(* SpecRoles, SpecLoss, SpecSwap  the two Sync Engines of one room from    *)
(*           given engine states: users at the controls; one user change   *)
(*           and a lossy transport; two different media at connect.        *)
(* SpecPlay, SpecSeek  one watching peer: a user who never scrubs; a       *)
(*           remote peer that only seeks.                                  *)
(* SpecClose, SpecOn, SpecPage  close() and unmount; on(); one page with   *)
(*           video pane and chat pane.                                     *)
(* SpecStill  two paused peers, one user scrubbing.                        *)
(* SpecJoin, SpecTalk  the chat panes of the host and the guest: a guest   *)
(*           joining a host that has posted; both users posting.           *)
(* SpecThird  the host and the guest of a PeerJS room with a third peer.   *)
(*                                                                         *)
(* Units: one tick of the clock is 500 ms; a position is a multiple of     *)
(* 0.5 s; a rate r advances a playing Player by r position units per tick. *)
(***************************************************************************)
EXTENDS Integers, Sequences, FiniteSets, TLC

\* ------------------------------------------------------------------ bounds
MaxTime == 3            \* ticks the clock may advance
MaxInputs == 2          \* inputs of a run: user actions (load, play, pause,
                        \* scrub, rate, post, send) and messages of an
                        \* unmodelled remote peer
MaxMembers == 3         \* members a ScaleDrone room may report
MaxLog == 3             \* entries a chat log may hold
LatePos == 240          \* where a late joiner finds the host: 120.0 s
MaxCloses == 2          \* calls of close() on one endpoint
MaxListeners == 3       \* callbacks registered with one endpoint by on()

\* --------------------------------------------------------- program constants
SettleDelay == 1            \* setTimeout(..., 500): the suppression window
SeekPollInterval == 2       \* setInterval(..., 1000): the position poll
SeekPollThreshold == 3      \* > 1.5 s in the position poll
SeekApplyThreshold == 1     \* > 0.5 s when a remote seek is applied
SyncVideoStateDelay == 2    \* setTimeout(syncVideoState, 1000)
BroadcastDelay == 2         \* setTimeout(..., 1000) after a local load
EpochOffset == 1000         \* Date.now(): a wall-clock reading, above any position

Peers == {1, 2}
Other(p) == 3 - p
Videos == {1, 2}            \* media ids; 0 is the empty string
Rates == {1, 2}             \* playback rates 1x and 2x
SeekTargets == {0, SeekPollThreshold, SeekPollThreshold + 1}

Abs(x) == IF x < 0 THEN -x ELSE x

VARIABLES
    vs,         \* per peer: the refs of the VideoSync component
    yt,         \* per peer: the YT.Player behind player.value
    timers,     \* per peer: pending setTimeout / setInterval callbacks
    roomProp,   \* per peer: props.roomId
    svcRoomId,  \* per peer: peerService._roomId
    loadPromise,\* per peer: state of peerService._loadPromise
    channel,    \* per peer: readyState of peerService._dataChannel
    net,        \* per peer: messages in flight to it, in order
    now,        \* ticks elapsed
    inputs,     \* user actions and unmodelled remote messages so far
    budget,     \* the inputs the run may take
    role,       \* per peer: "host" (created the room) or "guest" (joined it)
    engines,    \* the peers whose Sync Engine is part of the model
    lastStep,   \* the handler that ran last and what it handed to send()
    impl,       \* the build of the Session Endpoint: "drone" or "peerjs"
    page,       \* per peer: Room.vue (url parameter, position of onMounted,
                \* isNewRoom)
    svc,        \* per peer: the transport handles the endpoint created, its
                \* RTCPeerConnections, its connection table
    sendCalls,  \* per peer: the calls of peerService.send() by a caller
    messages,   \* per peer: Chat.vue messages
    userName,   \* per peer: Chat.vue userName ("" = not set)
    chatStep,   \* the chat handler that ran last
    lost        \* the messages the transport lost in flight

vars == <<vs, yt, timers, roomProp, svcRoomId, loadPromise, channel, net, now,
          inputs, budget, role, engines, lastStep, impl, page, svc, sendCalls,
          messages, userName, chatStep, lost>>

\* ------------------------------------------------------------ wire messages
Msg(type, videoId, time, rate, paused) ==
    [type |-> type, videoId |-> videoId, time |-> time, rate |-> rate,
     paused |-> paused]
PlayMsg == Msg("play", 0, 0, 0, FALSE)
PauseMsg == Msg("pause", 0, 0, 0, FALSE)
SeekMsg(t) == Msg("seek", 0, t, 0, FALSE)
SpeedMsg(r) == Msg("speedChange", 0, 0, r, FALSE)
RequestMsg == Msg("request_video_info", 0, 0, 0, FALSE)
VideoInfoMsg(v, t, r, pz) == Msg("video_info", v, t, r, pz)

EchoTypes == {"seek", "play", "pause", "speedChange"}

\* -------------------------------------------------------------- YT.Player
\* obj: "none" (player.value is null), "loading" (constructed, onReady not
\* yet raised: the API methods are not attached), "ready".
NoPlayer == [obj |-> "none", video |-> 0, pstate |-> "unstarted", pos |-> 0,
             rate |-> 1, ev |-> <<>>]
NewPlayer(v) == [obj |-> "loading", video |-> v, pstate |-> "unstarted",
                 pos |-> 0, rate |-> 1, ev |-> <<"ready">>]

PauseVideo(y) ==
    IF y.pstate = "playing"
    THEN [y EXCEPT !.pstate = "paused", !.ev = Append(@, "paused")]
    ELSE y
PlayVideo(y) ==
    IF y.pstate # "playing"
    THEN [y EXCEPT !.pstate = "playing", !.ev = Append(@, "playing")]
    ELSE y
\* seekTo(t, true): a paused Player stays paused; from any other state the
\* Player plays (buffering, then PLAYING is raised again).
SeekTo(y, t) ==
    IF y.pstate = "paused"
    THEN [y EXCEPT !.pos = t]
    ELSE [y EXCEPT !.pos = t, !.pstate = "playing", !.ev = Append(@, "playing")]
SetPlaybackRate(y, r) ==
    IF y.rate # r
    THEN [y EXCEPT !.rate = r, !.ev = Append(@, "rate")]
    ELSE y
IsPaused(y) == y.pstate # "playing"

\* ------------------------------------------------------------- peerService
\* send(): awaits _loadPromise, throws unless the data channel is open.
CanTransmit(p) == loadPromise[p] = "resolved" /\ channel[p] = "open"
\* A message for a peer outside the model leaves the model.
Transmit(n, p, msgs) ==
    IF CanTransmit(p) /\ Other(p) \in engines
    THEN [n EXCEPT ![Other(p)] = @ \o msgs] ELSE n

\* The refs of a component just mounted (mounted: not yet torn down).
FreshEngine ==
    [currentVideoId |-> 0, isAPIReady |-> FALSE, isPlayerReady |-> FALSE,
     isSyncing |-> FALSE, lastSeekTime |-> 0, lastCheckedTime |-> 0,
     errorMessage |-> FALSE, mounted |-> TRUE]

\* What the last step was: the peer, the handler, isSyncing when it began,
\* the messages it handed to send(), and for the position poll and the state
\* change the distance between the Player's position and lastCheckedTime when
\* it began.
\* live: the Player was ready (player.value set, isPlayerReady, API attached).
\* arg: the message the handler was called with (data), if any.
\* cmp: when both peers of the room are modelled, for the host and for the
\* guest the last Player callback or message handler each ran since the last
\* tick: the refs and the Player it began with, its argument, what it handed
\* to send(), and the refs and the Player it ended with.
NoArg == Msg("none", 0, 0, 0, FALSE)
NoRun == [h |-> "none", arg |-> NoArg, v |-> FreshEngine, y |-> NoPlayer,
          out |-> <<>>, v2 |-> FreshEngine, y2 |-> NoPlayer]
NoCmp == [r \in {"host", "guest"} |-> NoRun]
StepOf(p, h, out, arg) ==
    [p |-> p, h |-> h, syncing |-> vs[p].isSyncing, out |-> out,
     live |-> yt[p].obj = "ready" /\ vs[p].isPlayerReady,
     diff |-> IF h \in {"poll", "stateChange"}
              THEN Abs(yt[p].pos - vs[p].lastCheckedTime) ELSE 0,
     arg |-> arg, cmp |-> lastStep.cmp]
Step(p, h, out) == StepOf(p, h, out, NoArg)
\* The step of a Player callback or a message handler, which ends with refs
\* v2 and Player y2.
Ran(p, h, out, arg, v2, y2) ==
    [StepOf(p, h, out, arg) EXCEPT !.cmp =
        IF engines = Peers
        THEN [@ EXCEPT ![role[p]] =
                 [h |-> h, arg |-> arg, v |-> vs[p], y |-> yt[p],
                  out |-> out, v2 |-> v2, y2 |-> y2]]
        ELSE @]
NoStep(h) ==
    [p |-> 0, h |-> h, syncing |-> FALSE, out |-> <<>>, live |-> FALSE,
     diff |-> 0, arg |-> NoArg, cmp |-> NoCmp]

\* The timers of a component: syncT the ticks until the settle timeout fires
\* (-1: none pending), syncN the settle timeouts set and not yet fired, pollT
\* the position poll, createT / svsT / bcT the delayed createPlayer,
\* syncVideoState and broadcast calls.
NoTimers == [syncT |-> -1, pollT |-> -1, createT |-> <<>>, svsT |-> <<>>,
             bcT |-> <<>>, syncN |-> 0]

\* Room ids: "" is null / no parameter; RoomA is the room of the URL; the ids
\* a page draws for its own rooms are distinct from it.
RoomA == "a1"
FreshIds == {"b2", "c3"}
Impls == {"drone", "peerjs"}

\* createRoom: this._roomId = Math.floor(Math.random() * 0xffffff).toString(16)
CreateRoomId(rnd) == rnd
\* joinRoom(roomId): this._roomId = roomId
JoinRoomId(roomId) == roomId
\* Room.vue: roomId.value = newRoomId (createNewRoom), = urlRoomId (join)
RoomProp(r, id, urlRoomId) == IF r = "host" THEN id ELSE urlRoomId

\* A peer that has been watching media 1 on its own: Synced, playing at rate
\* 1, at 120.0 s when the position poll last ran.
WatchingEngine ==
    [currentVideoId |-> 1, isAPIReady |-> TRUE, isPlayerReady |-> TRUE,
     isSyncing |-> FALSE, lastSeekTime |-> EpochOffset,
     lastCheckedTime |-> LatePos, errorMessage |-> FALSE, mounted |-> TRUE]
WatchingPlayer ==
    [obj |-> "ready", video |-> 1, pstate |-> "playing", pos |-> LatePos,
     rate |-> 1, ev |-> <<>>]
WatchingTimers == [NoTimers EXCEPT !.pollT = SeekPollInterval]

Roles == [p \in Peers |-> IF p = 1 THEN "host" ELSE "guest"]

\* A transport handle: the ScaleDrone instance (or the Peer) one call of
\* createRoom / joinRoom created, with the Promise the call returned.
\*   st       "connecting", "subscribed", "roomOpen" (drone); "open",
\*            "dialing", "linked" (peerjs); "failed"; "closed"
\*   res      the call's Promise: "pending", "resolved", "rejected"
\*   members  the length of the members array reported (0: none yet)
\*   webrtc   its members handler called _startWebRTC
\* closes: the calls of close() that have returned; atClose: the transport
\* handles there were when the last one returned.
\* listeners: this._eventListeners; lastOn: the last call of on(), with the
\* table it found and what it threw.
\* opened: the peer links of the endpoint that have raised their open event;
\* notified: the connect callbacks that were invoked, in order.
NoListeners == [data |-> <<>>, connect |-> <<>>, close |-> <<>>]
\* The table once VideoSync and then Chat were mounted.
MountedListeners ==
    [data |-> <<"VideoSync", "Chat">>, connect |-> <<"VideoSync", "Chat">>,
     close |-> <<>>]
NoOn == [event |-> "", cb |-> "", before |-> NoListeners, thrown |-> "none"]
NewHandle(kind, room) ==
    [kind |-> kind, room |-> room, st |-> "connecting", res |-> "pending",
     members |-> 0, webrtc |-> FALSE]
NoService ==
    [handles |-> <<>>, pc |-> 0, connections |-> {}, closes |-> 0,
     atClose |-> 0, listeners |-> MountedListeners, lastOn |-> NoOn,
     opened |-> 0, notified |-> <<>>]
\* The endpoint after the handshake of a room of two, before the channel opens.
JoinedService(r) ==
    [handles |-> <<[kind |-> IF r = "host" THEN "create" ELSE "join",
                    room |-> RoomA, st |-> "roomOpen", res |-> "resolved",
                    members |-> IF r = "host" THEN 1 ELSE 2, webrtc |-> TRUE]>>,
     pc |-> 1, connections |-> {}, closes |-> 0, atClose |-> 0,
     listeners |-> MountedListeners, lastOn |-> NoOn,
     opened |-> 0, notified |-> <<>>]
\* The endpoint once the link has opened and the connect callbacks have run.
LinkedService(r) ==
    [JoinedService(r) EXCEPT !.opened = 1,
                             !.notified = MountedListeners.connect]
JoinedPage(r) ==
    [url |-> IF r = "host" THEN "" ELSE RoomA, ctl |-> "done",
     isNewRoom |-> r = "host"]
NoChatStep ==
    [p |-> 0, h |-> "init", before |-> <<>>, m |-> [type |-> "none"],
     out |-> <<>>, seen |-> 0, adopted |-> 0]

\* Both peers mounted in room 1, the data channel still connecting; peer w
\* is either fresh or has been watching.
InitRoom(modelled, w, watching, b) ==
    /\ impl = "drone"
    /\ page = [p \in Peers |-> JoinedPage(Roles[p])]
    /\ svc = [p \in Peers |-> JoinedService(Roles[p])]
    /\ sendCalls = [p \in Peers |-> <<>>]
    /\ messages = [p \in Peers |-> <<>>]
    /\ userName = [p \in Peers |-> ""]
    /\ chatStep = NoChatStep
    /\ vs = [p \in Peers |->
                IF p = w /\ watching THEN WatchingEngine ELSE FreshEngine]
    /\ yt = [p \in Peers |->
                IF p = w /\ watching THEN WatchingPlayer ELSE NoPlayer]
    /\ timers = [p \in Peers |->
                IF p = w /\ watching THEN WatchingTimers ELSE NoTimers]
    /\ budget = b
    /\ role = Roles
    /\ svcRoomId = [p \in Peers |->
          IF Roles[p] = "host" THEN CreateRoomId(RoomA) ELSE JoinRoomId(RoomA)]
    /\ roomProp = [p \in Peers |->
          RoomProp(Roles[p], CreateRoomId(RoomA), RoomA)]
    /\ loadPromise = [p \in Peers |-> "resolved"]
    /\ channel = [p \in Peers |-> "connecting"]
    /\ net = [p \in Peers |-> <<>>]
    /\ now = 0
    /\ inputs = 0
    /\ engines = modelled
    /\ lastStep = NoStep("init")
    /\ lost = <<>>

\* The Sync Engine of the guest (peer 2) facing an arbitrary remote peer.
Init == \E watching \in BOOLEAN : InitRoom({2}, 2, watching, MaxInputs)

\* The host and the guest of one room, both modelled, the users idle: the
\* guest is fresh, the host is fresh or has been watching.
InitPair == \E watching \in BOOLEAN : InitRoom(Peers, 1, watching, 0)

\* ------------------------------------------------- VideoSync.vue: helpers
R(v, y, t, out) == [v |-> v, y |-> y, t |-> t, out |-> out]

\* The methods of a YT.Player exist once onReady was raised; calling one on
\* null or on a Player still loading raises a TypeError.
ApiAttached(y) == y.obj = "ready"

\* currentVideoId.value && player.value && isPlayerReady.value
EngineSynced(v, y) ==
    v.currentVideoId # 0 /\ y.obj # "none" /\ v.isPlayerReady

LoadVideo(v, t, id) ==
    [v |-> [v EXCEPT !.currentVideoId = id],
     t |-> IF v.isAPIReady THEN [t EXCEPT !.createT = Append(@, id)] ELSE t]

OpenWindow(t) == [t EXCEPT !.syncT = SettleDelay, !.syncN = @ + 1]

\* ------------------------------------- VideoSync.vue: handlePeerMessage
HandlePause(v, y, t) ==
    IF v.isSyncing THEN R(v, y, t, <<>>)
    ELSE IF ~ApiAttached(y) THEN R([v EXCEPT !.isSyncing = TRUE], y, t, <<>>)
    ELSE R([v EXCEPT !.isSyncing = TRUE], PauseVideo(y), OpenWindow(t), <<>>)

HandlePlay(v, y, t) ==
    IF v.isSyncing THEN R(v, y, t, <<>>)
    ELSE IF ~ApiAttached(y) THEN R([v EXCEPT !.isSyncing = TRUE], y, t, <<>>)
    ELSE R([v EXCEPT !.isSyncing = TRUE], PlayVideo(y), OpenWindow(t), <<>>)

HandleSeekMsg(v, y, t, m) ==
    IF v.isSyncing THEN R(v, y, t, <<>>)
    ELSE IF ~ApiAttached(y) THEN R([v EXCEPT !.isSyncing = TRUE], y, t, <<>>)
    ELSE LET y1 == IF Abs(y.pos - m.time) > SeekApplyThreshold
                   THEN SeekTo(y, m.time) ELSE y
         IN  R([v EXCEPT !.isSyncing = TRUE, !.lastSeekTime = m.time],
               PlayVideo(y1), OpenWindow(t), <<>>)

HandleSpeedChange(v, y, t, m) ==
    IF v.isSyncing THEN R(v, y, t, <<>>)
    ELSE IF ~ApiAttached(y) THEN R([v EXCEPT !.isSyncing = TRUE], y, t, <<>>)
    ELSE R([v EXCEPT !.isSyncing = TRUE], SetPlaybackRate(y, m.rate),
           OpenWindow(t), <<>>)

HandleVideoInfo(v, y, t, m) ==
    LET l == LoadVideo(v, t, m.videoId)
    IN  R(l.v, y,
          IF v.isAPIReady
          THEN [l.t EXCEPT !.svsT = Append(@, [t |-> SyncVideoStateDelay, d |-> m])]
          ELSE l.t,
          <<>>)

VideoInfoOf(v, y) ==
    VideoInfoMsg(v.currentVideoId, y.pos, y.rate, IsPaused(y))

HandleRequestVideoInfoRecorded(v, y, t) ==
    IF EngineSynced(v, y) /\ ApiAttached(y)
    THEN R(v, y, t, <<VideoInfoMsg(v.currentVideoId, v.lastCheckedTime, 1, TRUE)>>)
    ELSE R(v, y, t, <<>>)

HandleRequestVideoInfo(v, y, t) ==
    IF EngineSynced(v, y) /\ ApiAttached(y)
    THEN R(v, y, t, <<VideoInfoOf(v, y)>>)
    ELSE R(v, y, t, <<>>)

HandlePeerMessage(v, y, t, m) ==
    CASE m.type = "pause" -> HandlePause(v, y, t)
      [] m.type = "play" -> HandlePlay(v, y, t)
      [] m.type = "seek" -> HandleSeekMsg(v, y, t, m)
      [] m.type = "speedChange" -> HandleSpeedChange(v, y, t, m)
      [] m.type = "video_info" -> HandleVideoInfo(v, y, t, m)
      [] m.type = "request_video_info" -> HandleRequestVideoInfo(v, y, t)
      [] OTHER -> R(v, y, t, <<>>)

\* ------------------------------------------ VideoSync.vue: Player callbacks
\* handleSeek(): the seek broadcast.
HandleSeek(v, y) ==
    IF v.isSyncing \/ y.obj = "none" \/ ~v.isPlayerReady THEN <<>>
    ELSE <<SeekMsg(y.pos)>>

OnPlayerStateChangeUnguarded(v, y, data) ==
    IF data = "playing"
    THEN [v |-> [v EXCEPT !.lastSeekTime = EpochOffset,
                          !.lastCheckedTime = y.pos],
          out |-> <<PlayMsg>> \o HandleSeek(v, y)]
    ELSE [v |-> v, out |-> <<PauseMsg>> \o HandleSeek(v, y)]

OnPlayerStateChangeOf(v, y, data) ==
    IF v.isSyncing THEN [v |-> v, out |-> <<>>]
    ELSE IF data = "playing"
         THEN [v |-> [v EXCEPT !.lastSeekTime = EpochOffset,
                               !.lastCheckedTime = y.pos],
               out |-> <<PlayMsg>> \o HandleSeek(v, y)]
         ELSE IF data = "paused"
              THEN [v |-> v, out |-> <<PauseMsg>> \o HandleSeek(v, y)]
              ELSE [v |-> v, out |-> <<>>]

OnPlaybackRateChangeOf(v, y) ==
    IF v.isSyncing \/ y.obj = "none" \/ ~v.isPlayerReady THEN <<>>
    ELSE <<SpeedMsg(y.rate)>>

SeekCheckAtThreshold(v, y) ==
    IF y.obj = "none" \/ ~v.isPlayerReady \/ v.isSyncing \/ ~ApiAttached(y)
    THEN [v |-> v, out |-> <<>>]
    ELSE [v |-> [v EXCEPT !.lastCheckedTime = y.pos],
          out |-> IF Abs(y.pos - v.lastCheckedTime) >= SeekPollThreshold
                  THEN HandleSeek(v, y) ELSE <<>>]

\* The callback of setupSeekDetection's interval.
SeekCheck(v, y) ==
    IF y.obj = "none" \/ ~v.isPlayerReady \/ v.isSyncing \/ ~ApiAttached(y)
    THEN [v |-> v, out |-> <<>>]
    ELSE [v |-> [v EXCEPT !.lastCheckedTime = y.pos],
          out |-> IF Abs(y.pos - v.lastCheckedTime) > SeekPollThreshold
                  THEN HandleSeek(v, y) ELSE <<>>]

\* The callback syncVideoState scheduled by a received video_info.
SyncVideoState(v, y, d) ==
    IF y.obj # "none" /\ v.isPlayerReady
    THEN <<SpeedMsg(d.rate), SeekMsg(d.time),
           IF d.paused THEN PauseMsg ELSE PlayMsg>>
    ELSE <<>>

VideoSyncOnConnectLoaded(v, y) ==
    IF v.currentVideoId = 0 \/ y.obj = "none"
    THEN [out |-> <<>>, threw |-> FALSE]
    ELSE [out |-> <<VideoInfoOf(v, y)>>, threw |-> FALSE]

\* The connect listener VideoSync registers: the three refs are tested, then
\* the Player is read to build the video_info; on a Player that has not
\* raised onReady the read raises a TypeError out of the listener.
VideoSyncOnConnect(v, y) ==
    IF ~EngineSynced(v, y) THEN [out |-> <<>>, threw |-> FALSE]
    ELSE IF ~ApiAttached(y) THEN [out |-> <<>>, threw |-> TRUE]
    ELSE [out |-> <<VideoInfoOf(v, y)>>, threw |-> FALSE]

\* props.roomId !== peerService.getId()
JoinedRoom(p) == roomProp[p] # svcRoomId[p]

Dec(n) == IF n > 0 THEN n - 1 ELSE n

\* ------------------------------------------------------------------ Chat.vue
SystemName == "System"
Welcome == "Welcome to your room! Share the URL to invite others."
Names == {"ann", "bob"}
Contents == {"hi", "yo"}
\* What a user may type: a message, or blanks only.
Blank == "  "
Typed == Contents \cup {Blank}
\* String.prototype.trim on what is typed: none of Contents has blanks at
\* its ends.
Trim(c) == IF c = Blank THEN "" ELSE c

ChatMsg(sender, content) ==
    [type |-> "chat", sender |-> sender, content |-> content]
HistoryMsg(log) == [type |-> "chat_history", messages |-> log]
\* An entry of the log; its timestamp (new Date()) is not modelled.
ChatEntry(sender, content) == [sender |-> sender, content |-> content]

AddMessageFirst(log, sender, content, id, name) ==
    <<ChatEntry(IF sender = id /\ name # "" THEN name ELSE sender, content)>>
    \o log

\* addMessage: messages.value.push(...)
AddMessage(log, sender, content, id, name) ==
    Append(log, ChatEntry(IF sender = id /\ name # "" THEN name ELSE sender,
                          content))

ChatHandlePeerMessageAdopting(log, id, name, m) ==
    IF m.type = "chat"
    THEN AddMessage(log, m.sender, m.content, id, name)
    ELSE IF m.type = "chat_history" /\ Len(m.messages) > 0
    THEN m.messages
    ELSE log

\* handlePeerMessage of Chat.vue
ChatHandlePeerMessage(log, id, name, m) ==
    IF m.type = "chat"
    THEN AddMessage(log, m.sender, m.content, id, name)
    ELSE IF m.type = "chat_history" /\ Len(log) = 0 /\ Len(m.messages) > 0
    THEN m.messages
    ELSE log

SendMessageRemoteOnly(log, id, name, content) ==
    IF Trim(content) # "" /\ name # ""
    THEN [log |-> log, out |-> <<ChatMsg(name, content)>>]
    ELSE [log |-> log, out |-> <<>>]

\* sendMessage of Chat.vue, the input holding content.
SendMessageOf(log, id, name, content) ==
    IF Trim(content) # "" /\ name # ""
    THEN [log |-> AddMessage(log, name, content, id, name),
          out |-> <<ChatMsg(name, content)>>]
    ELSE [log |-> log, out |-> <<>>]

\* The connect listener of Chat.vue. send() serialises its payload after
\* awaiting _loadPromise, when the listener has returned: the array it was
\* handed has the welcome entry by then.
ChatOnConnect(log, id, prop, name) ==
    LET after == IF id = prop
                 THEN AddMessage(log, SystemName, Welcome, id, name) ELSE log
    IN  [log |-> after,
         out |-> IF Len(log) > 0 THEN <<HistoryMsg(after)>> ELSE <<>>]

\* What the last chat step was: the log when it began, the message it
\* handled, what it handed to send(); seen and adopted count the snapshots
\* the peer received and the ones it replaced its log by.
ChatStepOf(p, h, m, out) ==
    [p |-> p, h |-> h, before |-> messages[p], m |-> m, out |-> out,
     seen |-> chatStep.seen, adopted |-> chatStep.adopted]

\* ---------------------------------------------------- the Session Endpoint
\* The fields of one peer's PeerConnectionManager.
EndpointOf(p) ==
    [roomId |-> svcRoomId[p], loadPromise |-> loadPromise[p],
     dataChannel |-> channel[p], handles |-> svc[p].handles,
     pc |-> svc[p].pc, connections |-> svc[p].connections,
     opened |-> svc[p].opened]

\* A Promise settles once.
Settle(promise, outcome) == IF promise = "pending" THEN outcome ELSE promise

\* this._peer.destroy() (PeerJS build): the handles so far are closed.
Destroy(hs) == [i \in 1..Len(hs) |-> [hs[i] EXCEPT !.st = "closed"]]

\* The property names every JavaScript object inherits from Object.prototype
\* (those drawn as event kinds).
ObjectPrototype == {"constructor", "toString"}
\* this._eventListeners[event] is truthy: an own property of the table (an
\* array, even an empty one, is truthy) or an inherited one.
Truthy(l, event) == event \in DOMAIN l \/ event \in ObjectPrototype

\* on(event, callback)
OnOf(l, event, cb) ==
    IF ~Truthy(l, event)
    THEN [listeners |-> l, thrown |-> "Unsupported event"]
    ELSE IF event \notin DOMAIN l
         THEN [listeners |-> l, thrown |-> "TypeError"]
         ELSE [listeners |-> [l EXCEPT ![event] = Append(@, cb)],
               thrown |-> "none"]

\* this._drone / this._peer is set and was not given up by close().
HasTransport(e) == e.handles # <<>> /\ e.handles[Len(e.handles)].st # "closed"

\* close(). ScaleDrone build: the data channel, the RTCPeerConnection, the
\* room and the ScaleDrone instance the fields point to, each if set. PeerJS
\* build: the Peer, if set, and with it the connection table.
CloseOf(im, e) ==
    IF im = "drone"
    THEN [e EXCEPT !.dataChannel = "none", !.pc = 0,
                   !.handles = IF HasTransport(e)
                               THEN [@ EXCEPT ![Len(@)].st = "closed"] ELSE @]
    ELSE IF HasTransport(e)
         THEN [e EXCEPT !.handles = Destroy(@), !.connections = {},
                        !.dataChannel = "none"]
         ELSE e

\* The synchronous part of createRoom().
CreateRoom(im, e, rnd) ==
    IF im = "drone"
    THEN [e EXCEPT !.roomId = CreateRoomId(rnd),
                   !.handles = Append(@, NewHandle("create", CreateRoomId(rnd)))]
    ELSE [e EXCEPT !.handles = Append(Destroy(@), NewHandle("create", ""))]

\* The synchronous part of joinRoom(roomId).
JoinRoom(im, e, roomId) ==
    IF im = "drone"
    THEN [e EXCEPT !.roomId = JoinRoomId(roomId),
                   !.handles = Append(@, NewHandle("join", roomId))]
    ELSE [e EXCEPT !.handles = Append(Destroy(@), NewHandle("join", roomId))]

\* this._loadPromiseReject(err); reject(err)
Reject(e, i) ==
    [e EXCEPT !.loadPromise = Settle(@, "rejected"),
              !.handles[i].res = Settle(@, "rejected")]
\* this._loadPromiseResolve(); resolve(...)
Resolve(e, i) ==
    [e EXCEPT !.loadPromise = Settle(@, "resolved"),
              !.handles[i].res = Settle(@, "resolved")]

\* _startWebRTC(isOfferer): a new RTCPeerConnection; the offerer creates the
\* data channel, the answerer is handed it; either way it is not open yet.
StartWebRTC(e, i, isOfferer) ==
    [e EXCEPT !.pc = @ + 1, !.dataChannel = "connecting",
              !.handles[i].webrtc = TRUE]

\* The members handler of createRoom.
CreateRoomMembers(e, i, n) ==
    Resolve(StartWebRTC([e EXCEPT !.handles[i].members = n], i, n = 2), i)

JoinRoomMembersFullAtTwo(e, i, n) ==
    IF n >= 2
    THEN Reject([e EXCEPT !.handles[i].members = n], i)
    ELSE Resolve(StartWebRTC([e EXCEPT !.handles[i].members = n], i, n = 2), i)

\* The members handler of joinRoom.
JoinRoomMembers(e, i, n) ==
    IF n > 2
    THEN Reject([e EXCEPT !.handles[i].members = n], i)
    ELSE Resolve(StartWebRTC([e EXCEPT !.handles[i].members = n], i, n = 2), i)

\* "before createRoom/joinRoom has resolved the readiness promise, or before
\* the data channel is open"
HandshakeComplete(im, e) ==
    /\ e.loadPromise = "resolved"
    /\ im = "drone" => e.dataChannel = "open"

\* send() past its await. ScaleDrone build: throws unless the data channel is
\* open. PeerJS build: hands the message to every connection of the table
\* (an empty table: returns, nothing transmitted).
SendOutcome(im, e) ==
    IF e.loadPromise = "rejected" THEN "failed"
    ELSE IF im = "drone"
    THEN IF e.dataChannel = "open" THEN "sent" ELSE "failed"
    ELSE IF e.connections # {} /\ e.dataChannel = "open" THEN "sent"
    ELSE "dropped"

\* The join was rejected, the createRoom called instead has resolved and the
\* peer link of the new room is open.
FallbackUp(im, e) ==
    /\ Len(e.handles) = 2
    /\ e.handles[1].kind = "join" /\ e.handles[1].res = "rejected"
    /\ e.handles[2].kind = "create" /\ e.handles[2].res = "resolved"
    /\ e.dataChannel = "open"
    /\ im = "peerjs" => e.connections # {}

\* A call of send(): "waiting" while it awaits _loadPromise. fallback: the
\* call was made on an endpoint whose fallback room was up.
SendCall(im, e) ==
    [early |-> ~HandshakeComplete(im, e), fallback |-> FallbackUp(im, e),
     st |-> IF im = "peerjs" /\ ~HasTransport(e) THEN "failed"
            ELSE IF e.loadPromise = "pending" THEN "waiting"
            ELSE SendOutcome(im, e)]

\* The calls awaiting _loadPromise resume when it settles.
ResumeSends(im, calls, e) ==
    [k \in 1..Len(calls) |->
        IF calls[k].st = "waiting" /\ e.loadPromise # "pending"
        THEN [calls[k] EXCEPT !.st = SendOutcome(im, e)] ELSE calls[k]]

\* ------------------------------------------------------------------ Room.vue
\* c: the controller (page, roomId ref, role); e: the endpoint.
Awaited(e) == e.handles[Len(e.handles)]

RoomAwaitNoFallback(im, c, e, rnd) ==
    IF c.page.ctl = "joining" /\ Awaited(e).res = "resolved"
    THEN [c |-> [c EXCEPT !.page.ctl = "done", !.role = "guest"], e |-> e]
    ELSE IF c.page.ctl = "joining" /\ Awaited(e).res = "rejected"
    THEN [c |-> [c EXCEPT !.page.ctl = "failed"], e |-> e]
    ELSE IF c.page.ctl \in {"creating", "fallback"}
            /\ Awaited(e).res = "resolved"
    THEN [c |-> [c EXCEPT !.page.ctl = "done", !.page.isNewRoom = TRUE,
                          !.roomId = e.roomId, !.role = "host"],
          e |-> e]
    ELSE IF c.page.ctl \in {"creating", "fallback"}
            /\ Awaited(e).res = "rejected"
    THEN [c |-> [c EXCEPT !.page.ctl = "failed"], e |-> e]
    ELSE [c |-> c, e |-> e]

\* onMounted past an await: the continuation that runs when the Promise of
\* joinRoom / createRoom has settled (createNewRoom included).
RoomAwait(im, c, e, rnd) ==
    IF c.page.ctl = "joining" /\ Awaited(e).res = "resolved"
    THEN [c |-> [c EXCEPT !.page.ctl = "done", !.role = "guest"], e |-> e]
    ELSE IF c.page.ctl = "joining" /\ Awaited(e).res = "rejected"
    THEN [c |-> [c EXCEPT !.page.ctl = "fallback"],
          e |-> CreateRoom(im, e, rnd)]
    ELSE IF c.page.ctl \in {"creating", "fallback"}
            /\ Awaited(e).res = "resolved"
    THEN [c |-> [c EXCEPT !.page.ctl = "done", !.page.isNewRoom = TRUE,
                          !.roomId = e.roomId, !.role = "host"],
          e |-> e]
    ELSE IF c.page.ctl \in {"creating", "fallback"}
            /\ Awaited(e).res = "rejected"
    THEN [c |-> [c EXCEPT !.page.ctl = "failed"], e |-> e]
    ELSE [c |-> c, e |-> e]

\* onMounted up to its first await.
RoomMount(im, c, e, rnd) ==
    IF c.page.url # ""
    THEN [c |-> [c EXCEPT !.page.ctl = "joining", !.roomId = c.page.url],
          e |-> JoinRoom(im, e, c.page.url)]
    ELSE [c |-> [c EXCEPT !.page.ctl = "creating"],
          e |-> CreateRoom(im, e, rnd)]

ControllerOf(p) == [page |-> page[p], roomId |-> roomProp[p], role |-> role[p]]

\* ------------------------------------------------------------------ actions
Link == <<roomProp, svcRoomId, loadPromise, role, engines, budget, impl,
          page, svc, sendCalls, lost>>
Endpoint == <<Link, messages, userName, chatStep>>
Engine == <<vs, yt, timers, net, now, lastStep>>

\* window.onYouTubeIframeAPIReady
ApiReady(p) ==
    /\ ~vs[p].isAPIReady
    /\ vs' = [vs EXCEPT ![p].isAPIReady = TRUE]
    /\ yt' = IF vs[p].currentVideoId # 0
             THEN [yt EXCEPT ![p] = NewPlayer(vs[p].currentVideoId)]
             ELSE yt
    /\ lastStep' = Step(p, "apiReady", <<>>)
    /\ UNCHANGED <<timers, Endpoint, channel, net, now, inputs>>

\* _dataChannel.onopen (an incoming connection's "open" in the PeerJS build):
\* the connect listeners run in a forEach with no try/catch, VideoSync's and
\* then Chat's; an exception out of the first ends the loop.
ChannelOpen(p) ==
    /\ channel[p] = "connecting"
    /\ channel' = [channel EXCEPT ![p] = "open"]
    /\ LET vc == VideoSyncOnConnect(vs[p], yt[p])
           c == IF vc.threw THEN [log |-> messages[p], out |-> <<>>]
                ELSE ChatOnConnect(messages[p], svcRoomId[p], roomProp[p],
                                   userName[p])
           cbs == svc[p].listeners.connect
       IN  /\ net' = IF loadPromise[p] = "resolved" /\ Other(p) \in engines
                     THEN [net EXCEPT ![Other(p)] = @ \o vc.out \o c.out]
                     ELSE net
           /\ lastStep' = Step(p, "connect", vc.out)
           /\ messages' = [messages EXCEPT ![p] = c.log]
           /\ chatStep' = ChatStepOf(p, "connect", [type |-> "none"], c.out)
           /\ svc' = [svc EXCEPT
                  ![p].opened = @ + 1,
                  ![p].notified =
                      @ \o (IF vc.threw THEN SubSeq(cbs, 1, 1) ELSE cbs)]
    /\ UNCHANGED <<vs, yt, timers, roomProp, svcRoomId, loadPromise, role,
                   engines, budget, impl, page, sendCalls, lost, userName, now,
                   inputs>>

\* _dataChannel.onmessage -> handlePeerMessage
Receive(p, m, rest) ==
    LET r == HandlePeerMessage(vs[p], yt[p], timers[p], m)
    IN  /\ vs' = [vs EXCEPT ![p] = r.v]
        /\ yt' = [yt EXCEPT ![p] = r.y]
        /\ timers' = [timers EXCEPT ![p] = r.t]
        /\ net' = Transmit(rest, p, r.out)
        /\ lastStep' = Ran(p, m.type, r.out, m, r.v, r.y)

\* The data listener of Chat.vue is called with m: handlePeerMessage. A
\* message that is neither chat nor chat_history leaves the chat pane as it is.
ChatTypes == {"chat", "chat_history"}
ChatReceive(p, m) ==
    IF m.type \in ChatTypes
    THEN LET log == ChatHandlePeerMessage(messages[p], svcRoomId[p],
                                          userName[p], m)
             snap == m.type = "chat_history"
         IN  /\ messages' = [messages EXCEPT ![p] = log]
             /\ chatStep' = [ChatStepOf(p, m.type, m, <<>>) EXCEPT
                    !.seen = IF snap THEN @ + 1 ELSE @,
                    !.adopted = IF snap /\ log # messages[p] THEN @ + 1 ELSE @]
    ELSE UNCHANGED <<messages, chatStep>>

\* The data listeners run in the order they were registered: VideoSync's,
\* then Chat's.
Deliver(p) ==
    /\ channel[p] = "open"
    /\ net[p] # <<>>
    /\ Receive(p, Head(net[p]), [net EXCEPT ![p] = Tail(@)])
    /\ ChatReceive(p, Head(net[p]))
    /\ UNCHANGED <<Link, userName, channel, now, inputs>>

\* What a remote peer can send: messages of every type of the vocabulary.
RemoteMsgs ==
    {PlayMsg, PauseMsg, RequestMsg}
    \cup {SeekMsg(0), SeekMsg(SeekPollThreshold + 1)}
    \cup {SpeedMsg(r) : r \in Rates \ {1}}
    \cup {VideoInfoMsg(2, SeekPollThreshold + 1, 2, FALSE)}

\* A message of the unmodelled remote peer arrives.
RemoteMessage(p, m) ==
    /\ Other(p) \notin engines
    /\ channel[p] = "open"
    /\ inputs < budget
    /\ inputs' = inputs + 1
    /\ Receive(p, m, net)
    /\ UNCHANGED <<Endpoint, channel, now>>

\* setTimeout(() => createPlayer(videoId), 10)
CreatePlayer(p) ==
    /\ timers[p].createT # <<>>
    /\ yt' = [yt EXCEPT ![p] = NewPlayer(Head(timers[p].createT))]
    /\ timers' = [timers EXCEPT ![p].createT = Tail(@)]
    /\ lastStep' = Step(p, "createPlayer", <<>>)
    /\ UNCHANGED <<vs, Endpoint, channel, net, now, inputs>>

OnPlayerReady(p) ==
    /\ yt[p].ev # <<>> /\ Head(yt[p].ev) = "ready"
    /\ yt' = [yt EXCEPT ![p].obj = "ready", ![p].ev = Tail(@)]
    /\ vs' = [vs EXCEPT ![p].isPlayerReady = TRUE]
    /\ timers' = [timers EXCEPT ![p].pollT = SeekPollInterval]
    /\ LET out == IF JoinedRoom(p) THEN <<RequestMsg>> ELSE <<>>
       IN  /\ net' = Transmit(net, p, out)
           /\ lastStep' = Step(p, "ready", out)
    /\ UNCHANGED <<Endpoint, channel, now, inputs>>

OnPlayerStateChangeByHost(p) ==
    /\ yt[p].ev # <<>> /\ Head(yt[p].ev) \in {"playing", "paused"}
    /\ LET r == OnPlayerStateChangeOf(vs[p], yt[p], Head(yt[p].ev))
           out == IF role[p] = "host" THEN r.out ELSE <<>>
       IN  /\ vs' = [vs EXCEPT ![p] = r.v]
           /\ net' = Transmit(net, p, out)
           /\ lastStep' = Ran(p, "stateChange", out, NoArg, r.v,
                               [yt[p] EXCEPT !.ev = Tail(@)])
    /\ yt' = [yt EXCEPT ![p].ev = Tail(@)]
    /\ UNCHANGED <<timers, Endpoint, channel, now, inputs>>

OnPlayerStateChange(p) ==
    /\ yt[p].ev # <<>> /\ Head(yt[p].ev) \in {"playing", "paused"}
    /\ LET r == OnPlayerStateChangeOf(vs[p], yt[p], Head(yt[p].ev))
       IN  /\ vs' = [vs EXCEPT ![p] = r.v]
           /\ net' = Transmit(net, p, r.out)
           /\ lastStep' = Ran(p, "stateChange", r.out, NoArg, r.v,
                               [yt[p] EXCEPT !.ev = Tail(@)])
    /\ yt' = [yt EXCEPT ![p].ev = Tail(@)]
    /\ UNCHANGED <<timers, Endpoint, channel, now, inputs>>

OnPlaybackRateChange(p) ==
    /\ yt[p].ev # <<>> /\ Head(yt[p].ev) = "rate"
    /\ LET out == OnPlaybackRateChangeOf(vs[p], yt[p])
       IN  /\ net' = Transmit(net, p, out)
           /\ lastStep' = Ran(p, "rateChange", out, NoArg, vs[p],
                               [yt[p] EXCEPT !.ev = Tail(@)])
    /\ yt' = [yt EXCEPT ![p].ev = Tail(@)]
    /\ UNCHANGED <<vs, timers, Endpoint, channel, now, inputs>>

OnPlayerErrorKeepingMedia(p) ==
    /\ yt[p].obj = "ready" /\ yt[p].pstate = "unstarted"
    /\ vs[p].currentVideoId # 0
    /\ vs' = [vs EXCEPT ![p].errorMessage = TRUE]
    /\ lastStep' = Step(p, "error", <<>>)
    /\ UNCHANGED <<yt, timers, Endpoint, channel, net, now, inputs>>

\* onPlayerError
OnPlayerError(p) ==
    /\ yt[p].obj = "ready" /\ yt[p].pstate = "unstarted"
    /\ vs[p].currentVideoId # 0
    /\ vs' = [vs EXCEPT ![p].errorMessage = TRUE, ![p].currentVideoId = 0]
    /\ lastStep' = Step(p, "error", <<>>)
    /\ UNCHANGED <<yt, timers, Endpoint, channel, net, now, inputs>>

\* The interval of setupSeekDetection fires.
SeekPoll(p) ==
    /\ timers[p].pollT = 0
    /\ LET r == SeekCheck(vs[p], yt[p])
       IN  /\ vs' = [vs EXCEPT ![p] = r.v]
           /\ net' = Transmit(net, p, r.out)
           /\ lastStep' = Ran(p, "poll", r.out, NoArg, r.v, yt[p])
    /\ timers' = [timers EXCEPT ![p].pollT = SeekPollInterval]
    /\ UNCHANGED <<yt, Endpoint, channel, now, inputs>>

\* The settle-delay timeout: isSyncing.value = false
SettleTimeout(p) ==
    /\ timers[p].syncT = 0
    /\ vs' = [vs EXCEPT ![p].isSyncing = FALSE]
    /\ timers' = [timers EXCEPT ![p].syncT = -1, ![p].syncN = @ - 1]
    /\ lastStep' = Step(p, "settle", <<>>)
    /\ UNCHANGED <<yt, Endpoint, channel, net, now, inputs>>

SyncVideoStateTimeout(p) ==
    /\ timers[p].svsT # <<>> /\ Head(timers[p].svsT).t = 0
    /\ LET out == SyncVideoState(vs[p], yt[p], Head(timers[p].svsT).d)
       IN  /\ net' = Transmit(net, p, out)
           /\ lastStep' = StepOf(p, "syncVideoState", out,
                                  Head(timers[p].svsT).d)
    /\ timers' = [timers EXCEPT ![p].svsT = Tail(@)]
    /\ UNCHANGED <<vs, yt, Endpoint, channel, now, inputs>>

\* The delayed broadcast of handleLoadVideoRequest.
BroadcastTimeout(p) ==
    /\ timers[p].bcT # <<>> /\ Head(timers[p].bcT).t = 0
    /\ LET out == <<VideoInfoMsg(Head(timers[p].bcT).v, 0, 1, TRUE)>>
       IN  /\ net' = Transmit(net, p, out)
           /\ lastStep' = Step(p, "broadcast", out)
    /\ timers' = [timers EXCEPT ![p].bcT = Tail(@)]
    /\ UNCHANGED <<vs, yt, Endpoint, channel, now, inputs>>

\* handleLoadVideoRequest with a valid id
UserLoad(p, id) ==
    /\ inputs < budget
    /\ vs[p].isAPIReady
    /\ LET l == LoadVideo([vs[p] EXCEPT !.errorMessage = FALSE], timers[p], id)
       IN  /\ vs' = [vs EXCEPT ![p] = l.v]
           /\ timers' = [timers EXCEPT ![p] =
                  [l.t EXCEPT !.bcT = Append(@, [t |-> BroadcastDelay, v |-> id])]]
    /\ inputs' = inputs + 1
    /\ lastStep' = Step(p, "load", <<>>)
    /\ UNCHANGED <<yt, Endpoint, channel, net, now>>

\* What the Player's own controls can make of Player y: play, pause and the
\* rate menu; the progress bar (a scrub).
Controls(y) ==
    {PlayVideo(y), PauseVideo(y)} \cup {SetPlaybackRate(y, r) : r \in Rates}
Scrubs(y) == {SeekTo(y, t) : t \in SeekTargets}

\* The user changes the Player to one of ys.
UserActs(p, ys) ==
    /\ inputs < budget
    /\ yt[p].obj = "ready"
    /\ \E y \in ys :
          /\ y # yt[p]
          /\ yt' = [yt EXCEPT ![p] = y]
    /\ inputs' = inputs + 1
    /\ lastStep' = Step(p, "user", <<>>)
    /\ UNCHANGED <<vs, timers, Endpoint, channel, net, now>>

\* The user acts on the Player's own controls.
UserPlayer(p) == UserActs(p, Controls(yt[p]) \cup Scrubs(yt[p]))

\* The user plays, pauses or picks a rate, and never scrubs.
UserControl(p) == UserActs(p, Controls(yt[p]))

TimerDue(t) ==
    \/ t.syncT = 0 \/ t.pollT = 0 \/ t.createT # <<>>
    \/ \E i \in 1..Len(t.svsT) : t.svsT[i].t = 0
    \/ \E i \in 1..Len(t.bcT) : t.bcT[i].t = 0

Elapse(t) ==
    [t EXCEPT !.syncT = Dec(@), !.pollT = Dec(@),
              !.svsT = [i \in 1..Len(@) |-> [@[i] EXCEPT !.t = Dec(@)]],
              !.bcT = [i \in 1..Len(@) |-> [@[i] EXCEPT !.t = Dec(@)]]]
Advance(y) ==
    IF y.obj = "ready" /\ y.pstate = "playing"
    THEN [y EXCEPT !.pos = @ + y.rate] ELSE y

\* 500 ms pass: every timer due has run, and the iframe API script, requested
\* at mount, has loaded.
Tick ==
    /\ now < MaxTime
    /\ \A p \in engines : vs[p].isAPIReady
    /\ \A p \in engines : ~TimerDue(timers[p])
    /\ now' = now + 1
    /\ timers' = [p \in Peers |-> Elapse(timers[p])]
    /\ yt' = [p \in Peers |-> Advance(yt[p])]
    /\ lastStep' = NoStep("tick")
    /\ UNCHANGED <<vs, Endpoint, channel, net, inputs>>

Next ==
    \/ \E p \in engines : ApiReady(p)
    \/ \E p \in engines : ChannelOpen(p)
    \/ \E p \in engines : CreatePlayer(p)
    \/ \E p \in engines : OnPlayerReady(p)
    \/ \E p \in engines : OnPlayerStateChange(p)
    \/ \E p \in engines : OnPlaybackRateChange(p)
    \/ \E p \in engines : OnPlayerError(p)
    \/ \E p \in engines : SeekPoll(p)
    \/ \E p \in engines : SettleTimeout(p)
    \/ \E p \in engines : SyncVideoStateTimeout(p)
    \/ \E p \in engines : BroadcastTimeout(p)
    \/ \E p \in engines, id \in Videos : UserLoad(p, id)
    \/ \E p \in engines : UserPlayer(p)
    \/ \E p \in engines, m \in RemoteMsgs : RemoteMessage(p, m)
    \/ Tick

Spec == Init /\ [][Next]_vars

NextPair ==
    \/ \E p \in engines : ApiReady(p)
    \/ \E p \in engines : ChannelOpen(p)
    \/ \E p \in engines : CreatePlayer(p)
    \/ \E p \in engines : OnPlayerReady(p)
    \/ \E p \in engines : OnPlayerStateChange(p)
    \/ \E p \in engines : OnPlayerError(p)
    \/ \E p \in engines : SeekPoll(p)
    \/ \E p \in engines : SettleTimeout(p)
    \/ \E p \in engines : SyncVideoStateTimeout(p)
    \/ \E p \in engines : Deliver(p)
    \/ Tick

SpecPair == InitPair /\ [][NextPair]_vars

\* A peer that has loaded media 1: its Player is ready at 0.0 s, not started.
LoadedEngine ==
    [FreshEngine EXCEPT !.currentVideoId = 1, !.isAPIReady = TRUE,
                        !.isPlayerReady = TRUE]
LoadedPlayer == [NewPlayer(1) EXCEPT !.obj = "ready", !.ev = <<>>]

\* The host and the guest of one room in the same engine state (refs v,
\* Player y), the data channel open and the connect listeners run (the chat
\* pane's has added the welcome entry), nothing posted yet.
InitBoth(v, y, b) ==
    /\ impl = "drone"
    /\ page = [p \in Peers |-> JoinedPage(Roles[p])]
    /\ svc = [p \in Peers |-> LinkedService(Roles[p])]
    /\ sendCalls = [p \in Peers |-> <<>>]
    /\ messages = [p \in Peers |-> <<ChatEntry(SystemName, Welcome)>>]
    /\ userName = [p \in Peers |-> ""]
    /\ chatStep = NoChatStep
    /\ vs = [p \in Peers |-> v]
    /\ yt = [p \in Peers |-> y]
    /\ timers = [p \in Peers |-> WatchingTimers]
    /\ budget = b
    /\ role = Roles
    /\ svcRoomId = [p \in Peers |->
          IF Roles[p] = "host" THEN CreateRoomId(RoomA) ELSE JoinRoomId(RoomA)]
    /\ roomProp = [p \in Peers |->
          RoomProp(Roles[p], CreateRoomId(RoomA), RoomA)]
    /\ loadPromise = [p \in Peers |-> "resolved"]
    /\ channel = [p \in Peers |-> "open"]
    /\ net = [p \in Peers |-> <<>>]
    /\ now = 0
    /\ inputs = 0
    /\ engines = Peers
    /\ lastStep = NoStep("init")
    /\ lost = <<>>

\* The host and the guest of one room, their users at the Players' controls:
\* the host has loaded media 1, the guest has loaded it on the host's
\* video_info. What the two do within one 500 ms step of the clock is
\* followed.
InitRoles == InitBoth(LoadedEngine, LoadedPlayer, MaxInputs)

NextRoles ==
    \/ \E p \in engines : OnPlayerStateChange(p)
    \/ \E p \in engines : OnPlaybackRateChange(p)
    \/ \E p \in engines : UserPlayer(p)
    \/ \E p \in engines : Deliver(p)

SpecRoles == InitRoles /\ [][NextRoles]_vars

\* A peer that has been watching media 1, its user at the Player's controls
\* but never scrubbing, the remote peer silent.
InitPlay == InitRoom({2}, 2, TRUE, MaxInputs)

NextPlay ==
    \/ \E p \in engines : ChannelOpen(p)
    \/ \E p \in engines : UserControl(p)
    \/ \E p \in engines : OnPlayerStateChange(p)
    \/ \E p \in engines : OnPlaybackRateChange(p)
    \/ \E p \in engines : SeekPoll(p)
    \/ Tick

SpecPlay == InitPlay /\ [][NextPlay]_vars

\* The seeks a remote peer can send: far from where the peer is, or where it
\* is.
RemoteSeeks == {m \in RemoteMsgs : m.type = "seek"} \cup {SeekMsg(LatePos)}

\* A peer that has been watching media 1, its user idle, the remote peer
\* sending seeks and nothing else.
NextSeek ==
    \/ \E p \in engines : ChannelOpen(p)
    \/ \E p \in engines, m \in RemoteSeeks : RemoteMessage(p, m)
    \/ \E p \in engines : OnPlayerStateChange(p)
    \/ \E p \in engines : SeekPoll(p)
    \/ \E p \in engines : SettleTimeout(p)
    \/ Tick

SpecSeek == InitPlay /\ [][NextSeek]_vars

\* The host and the guest of one room, each of which has been watching a
\* media of its own (the host media 1, the guest media 2), the data channel
\* about to open; the users idle.
InitSwap ==
    /\ impl = "drone"
    /\ page = [p \in Peers |-> JoinedPage(Roles[p])]
    /\ svc = [p \in Peers |-> JoinedService(Roles[p])]
    /\ sendCalls = [p \in Peers |-> <<>>]
    /\ messages = [p \in Peers |-> <<>>]
    /\ userName = [p \in Peers |-> ""]
    /\ chatStep = NoChatStep
    /\ vs = [p \in Peers |-> [WatchingEngine EXCEPT !.currentVideoId = p]]
    /\ yt = [p \in Peers |-> [WatchingPlayer EXCEPT !.video = p]]
    /\ timers = [p \in Peers |-> WatchingTimers]
    /\ budget = 0
    /\ role = Roles
    /\ svcRoomId = [p \in Peers |->
          IF Roles[p] = "host" THEN CreateRoomId(RoomA) ELSE JoinRoomId(RoomA)]
    /\ roomProp = [p \in Peers |->
          RoomProp(Roles[p], CreateRoomId(RoomA), RoomA)]
    /\ loadPromise = [p \in Peers |-> "resolved"]
    /\ channel = [p \in Peers |-> "connecting"]
    /\ net = [p \in Peers |-> <<>>]
    /\ now = 0
    /\ inputs = 0
    /\ engines = Peers
    /\ lastStep = NoStep("init")
    /\ lost = <<>>

NextSwap ==
    \/ \E p \in engines : ChannelOpen(p)
    \/ \E p \in engines : CreatePlayer(p)
    \/ \E p \in engines : OnPlayerReady(p)
    \/ \E p \in engines : OnPlayerStateChange(p)
    \/ \E p \in engines : SeekPoll(p)
    \/ \E p \in engines : SettleTimeout(p)
    \/ \E p \in engines : SyncVideoStateTimeout(p)
    \/ \E p \in engines : Deliver(p)
    \/ Tick

SpecSwap == InitSwap /\ [][NextSwap]_vars

\* A room of three in the PeerJS build: the host, the guest and a third peer
\* outside the model. The host's table holds the connections of the guest
\* and of the third peer, the guest's its connection to the host; the host
\* and the guest are Synced on media 1 and playing.
GuestPeerId == "g5"
ThirdPeerId == "t7"
PeerJsService(r) ==
    [handles |-> <<[kind |-> IF r = "host" THEN "create" ELSE "join",
                    room |-> RoomA,
                    st |-> IF r = "host" THEN "open" ELSE "linked",
                    res |-> "resolved", members |-> 0, webrtc |-> FALSE]>>,
     pc |-> 0,
     connections |-> IF r = "host" THEN {GuestPeerId, ThirdPeerId}
                     ELSE {RoomA},
     closes |-> 0, atClose |-> 0, listeners |-> MountedListeners,
     lastOn |-> NoOn,
     opened |-> IF r = "host" THEN 2 ELSE 1,
     notified |-> IF r = "host"
                  THEN MountedListeners.connect \o MountedListeners.connect
                  ELSE <<>>]

InitThird ==
    /\ impl = "peerjs"
    /\ page = [p \in Peers |-> JoinedPage(Roles[p])]
    /\ svc = [p \in Peers |-> PeerJsService(Roles[p])]
    /\ sendCalls = [p \in Peers |-> <<>>]
    /\ messages = [p \in Peers |->
          IF Roles[p] = "host"
          THEN <<ChatEntry(SystemName, Welcome), ChatEntry(SystemName, Welcome)>>
          ELSE <<>>]
    /\ userName = [p \in Peers |-> ""]
    /\ chatStep = NoChatStep
    /\ vs = [p \in Peers |-> WatchingEngine]
    /\ yt = [p \in Peers |-> WatchingPlayer]
    /\ timers = [p \in Peers |-> WatchingTimers]
    /\ budget = MaxInputs
    /\ role = Roles
    /\ svcRoomId = [p \in Peers |->
          IF Roles[p] = "host" THEN CreateRoomId(RoomA) ELSE JoinRoomId(RoomA)]
    /\ roomProp = [p \in Peers |->
          RoomProp(Roles[p], CreateRoomId(RoomA), RoomA)]
    /\ loadPromise = [p \in Peers |-> "resolved"]
    /\ channel = [p \in Peers |-> "open"]
    /\ net = [p \in Peers |-> <<>>]
    /\ now = 0
    /\ inputs = 0
    /\ engines = Peers
    /\ lastStep = NoStep("init")
    /\ lost = <<>>

\* The third peer's request_video_info arrives at a peer that holds its
\* connection. What the handler hands to send() goes to every connection of
\* the table: the copy for the peer of the model is queued, the copy for the
\* third peer leaves the model.
ThirdPeerRequest(p) ==
    /\ impl = "peerjs"
    /\ ThirdPeerId \in svc[p].connections
    /\ channel[p] = "open"
    /\ inputs < budget
    /\ inputs' = inputs + 1
    /\ Receive(p, RequestMsg, net)
    /\ UNCHANGED <<Endpoint, channel, now>>

NextThird ==
    \/ \E p \in engines : ThirdPeerRequest(p)
    \/ \E p \in engines : Deliver(p)
    \/ \E p \in engines : CreatePlayer(p)
    \/ \E p \in engines : OnPlayerReady(p)
    \/ \E p \in engines : OnPlayerStateChange(p)
    \/ \E p \in engines : SeekPoll(p)
    \/ \E p \in engines : SettleTimeout(p)
    \/ \E p \in engines : SyncVideoStateTimeout(p)
    \/ Tick

SpecThird == InitThird /\ [][NextThird]_vars

\* The transport loses the message at the head of the queue to p: a seek, a
\* play or a pause, and one message only.
Lose(p) ==
    /\ lost = <<>>
    /\ net[p] # <<>> /\ Head(net[p]).type \in {"seek", "play", "pause"}
    /\ lost' = Append(lost, [to |-> p, m |-> Head(net[p]), at |-> now])
    /\ net' = [net EXCEPT ![p] = Tail(@)]
    /\ UNCHANGED <<vs, yt, timers, now, lastStep, inputs, channel, messages,
                   userName, chatStep, roomProp, svcRoomId, loadPromise, role,
                   engines, budget, impl, page, svc, sendCalls>>

\* Two Synced peers of one room, both stopped at 0.0 s or both playing at
\* 120.0 s; one user acts once on the Player's controls.
InitLoss ==
    \E watching \in BOOLEAN :
        InitBoth(IF watching THEN WatchingEngine ELSE LoadedEngine,
                 IF watching THEN WatchingPlayer ELSE LoadedPlayer, 1)

NextLoss ==
    \/ \E p \in engines : UserPlayer(p)
    \/ \E p \in engines : OnPlayerStateChange(p)
    \/ \E p \in engines : OnPlaybackRateChange(p)
    \/ \E p \in engines : SeekPoll(p)
    \/ \E p \in engines : SettleTimeout(p)
    \/ \E p \in engines : Deliver(p)
    \/ \E p \in engines : Lose(p)
    \/ Tick

SpecLoss == InitLoss /\ [][NextLoss]_vars

\* A Player that was paused at 120.0 s.
PausedPlayer == [WatchingPlayer EXCEPT !.pstate = "paused"]

\* The user drags the progress bar.
UserScrub(p) == UserActs(p, Scrubs(yt[p]))

\* Two Synced peers of one room, both paused at 120.0 s; one user scrubs
\* once.
InitStill == InitBoth(WatchingEngine, PausedPlayer, 1)

NextStill ==
    \/ \E p \in engines : UserScrub(p)
    \/ \E p \in engines : OnPlayerStateChange(p)
    \/ \E p \in engines : SeekPoll(p)
    \/ \E p \in engines : SettleTimeout(p)
    \/ \E p \in engines : Deliver(p)
    \/ Tick

SpecStill == InitStill /\ [][NextStill]_vars

\* ------------------------------------------- actions of the endpoint's page
Rest == <<Engine, engines, budget, impl, messages, userName, chatStep,
          lost>>

\* The fields of the controller and of the endpoint are stored.
Write(p, k) ==
    /\ page' = [page EXCEPT ![p] = k.c.page]
    /\ roomProp' = [roomProp EXCEPT ![p] = k.c.roomId]
    /\ role' = [role EXCEPT ![p] = k.c.role]
    /\ svcRoomId' = [svcRoomId EXCEPT ![p] = k.e.roomId]
    /\ loadPromise' = [loadPromise EXCEPT ![p] = k.e.loadPromise]
    /\ channel' = [channel EXCEPT ![p] = k.e.dataChannel]
    /\ svc' = [svc EXCEPT ![p].handles = k.e.handles, ![p].pc = k.e.pc,
                           ![p].connections = k.e.connections,
                           ![p].opened = k.e.opened]
    /\ sendCalls' = [sendCalls EXCEPT ![p] = ResumeSends(impl, @, k.e)]

\* A transport handler has left the endpoint as e: the continuations waiting
\* on the Promises it settled run before the next event.
Commit(p, e, rnd) == Write(p, RoomAwait(impl, ControllerOf(p), e, rnd))

\* Room.vue is mounted.
Mount(p, rnd) ==
    /\ page[p].ctl = "mount"
    /\ Write(p, RoomMount(impl, ControllerOf(p), EndpointOf(p), rnd))
    /\ UNCHANGED <<Rest, inputs>>

Live(h) == h.st \notin {"failed", "closed"}

\* this._drone.on("open", error => ...)
DroneOpen(p, i, err, rnd) ==
    /\ impl = "drone" /\ svc[p].handles[i].st = "connecting"
    /\ LET e == EndpointOf(p)
       IN  Commit(p, IF err
                     THEN Reject([e EXCEPT !.handles[i].st = "failed"], i)
                     ELSE [e EXCEPT !.handles[i].st = "subscribed"], rnd)
    /\ UNCHANGED <<Rest, inputs>>

\* this._room.on("open", error => ...)
RoomOpen(p, i, err, rnd) ==
    /\ impl = "drone" /\ svc[p].handles[i].st = "subscribed"
    /\ LET e == EndpointOf(p)
       IN  Commit(p, IF err
                     THEN Reject([e EXCEPT !.handles[i].st = "failed"], i)
                     ELSE [e EXCEPT !.handles[i].st = "roomOpen"], rnd)
    /\ UNCHANGED <<Rest, inputs>>

\* this._room.on("members", members => ...), members.length = n
Members(p, i, n, rnd) ==
    /\ impl = "drone" /\ svc[p].handles[i].st = "roomOpen"
    /\ svc[p].handles[i].members = 0
    /\ LET e == EndpointOf(p)
       IN  Commit(p, IF e.handles[i].kind = "join"
                     THEN JoinRoomMembers(e, i, n)
                     ELSE CreateRoomMembers(e, i, n), rnd)
    /\ UNCHANGED <<Rest, inputs>>

\* this._drone.on("error", ...): the connection to ScaleDrone is lost.
DroneError(p, i, rnd) ==
    /\ impl = "drone" /\ Live(svc[p].handles[i])
    /\ Commit(p, Reject([EndpointOf(p) EXCEPT !.handles[i].st = "failed"], i),
              rnd)
    /\ UNCHANGED <<Rest, inputs>>

\* this._peer.on("open", ...) of the PeerJS build: createRoom takes the id the
\* server assigned and resolves; joinRoom dials the host.
PeerOpen(p, i, rnd) ==
    /\ impl = "peerjs" /\ svc[p].handles[i].st = "connecting"
    /\ LET e == EndpointOf(p)
       IN  Commit(p, IF e.handles[i].kind = "create"
                     THEN Resolve([e EXCEPT !.roomId = rnd,
                                            !.handles[i].room = rnd,
                                            !.handles[i].st = "open"], i)
                     ELSE [e EXCEPT !.roomId = e.handles[i].room,
                                    !.handles[i].st = "dialing"], rnd)
    /\ UNCHANGED <<Rest, inputs>>

\* connection.on("open", ...) of joinRoom (PeerJS build): the connection
\* enters the table; the listener that would run the connect callbacks is
\* registered only now, after the event.
ConnOpen(p, i, rnd) ==
    /\ impl = "peerjs" /\ svc[p].handles[i].st = "dialing"
    /\ LET e == EndpointOf(p)
       IN  Commit(p, Resolve([e EXCEPT
                     !.connections = @ \cup {e.handles[i].room},
                     !.dataChannel = "open", !.opened = @ + 1,
                     !.handles[i].st = "linked"], i), rnd)
    /\ UNCHANGED <<Rest, inputs>>

\* connection.on("error", ...) / this._peer.on("error", ...)
PeerError(p, i, rnd) ==
    /\ impl = "peerjs" /\ Live(svc[p].handles[i])
    /\ Commit(p, Reject([EndpointOf(p) EXCEPT !.handles[i].st = "failed"], i),
              rnd)
    /\ UNCHANGED <<Rest, inputs>>

\* this._peer.on("connection", ...) (PeerJS build): the connection enters the
\* table at once, before it is open.
IncomingConnection(p, q) ==
    /\ impl = "peerjs" /\ channel[p] = "none"
    /\ \E i \in 1..Len(svc[p].handles) :
          svc[p].handles[i].st \in {"open", "dialing", "linked"}
    /\ svc' = [svc EXCEPT ![p].connections = @ \cup {q}]
    /\ channel' = [channel EXCEPT ![p] = "connecting"]
    /\ UNCHANGED <<Rest, inputs, page, roomProp, role, svcRoomId, loadPromise,
                   sendCalls>>

\* A caller invokes peerService.close().
Close(p) ==
    /\ svc[p].closes < MaxCloses
    /\ LET e == CloseOf(impl, EndpointOf(p))
       IN  /\ svc' = [svc EXCEPT ![p].handles = e.handles, ![p].pc = e.pc,
                                  ![p].connections = e.connections,
                                  ![p].closes = @ + 1,
                                  ![p].atClose = Len(e.handles)]
           /\ channel' = [channel EXCEPT ![p] = e.dataChannel]
    /\ UNCHANGED <<Rest, inputs, page, roomProp, role, svcRoomId, loadPromise,
                   sendCalls>>

\* A caller invokes peerService.send().
Send(p) ==
    /\ inputs < budget
    /\ inputs' = inputs + 1
    /\ sendCalls' = [sendCalls EXCEPT
                        ![p] = Append(@, SendCall(impl, EndpointOf(p)))]
    /\ UNCHANGED <<Rest, page, roomProp, role, svcRoomId, loadPromise, channel,
                   svc>>

\* A page about to be mounted, with or without a roomId parameter.
InitMount ==
    /\ impl \in Impls
    /\ page \in [Peers -> [url : {"", RoomA}, ctl : {"mount"},
                            isNewRoom : {FALSE}]]
    /\ \A p \in Peers : p # 2 => page[p].url = ""
    /\ svc = [p \in Peers |-> NoService]
    /\ sendCalls = [p \in Peers |-> <<>>]
    /\ messages = [p \in Peers |-> <<>>]
    /\ userName = [p \in Peers |-> ""]
    /\ chatStep = NoChatStep
    /\ vs = [p \in Peers |-> FreshEngine]
    /\ yt = [p \in Peers |-> NoPlayer]
    /\ timers = [p \in Peers |-> NoTimers]
    /\ budget = MaxInputs
    /\ role = [p \in Peers |-> "none"]
    /\ svcRoomId = [p \in Peers |-> ""]
    /\ roomProp = [p \in Peers |-> ""]
    /\ loadPromise = [p \in Peers |-> "pending"]
    /\ channel = [p \in Peers |-> "none"]
    /\ net = [p \in Peers |-> <<>>]
    /\ now = 0
    /\ inputs = 0
    /\ engines = {2}
    /\ lastStep = NoStep("init")
    /\ lost = <<>>

NextRoom ==
    \/ \E p \in engines, rnd \in FreshIds : Mount(p, rnd)
    \/ \E p \in engines, rnd \in FreshIds, err \in BOOLEAN :
          \E i \in 1..Len(svc[p].handles) : DroneOpen(p, i, err, rnd)
    \/ \E p \in engines, rnd \in FreshIds, err \in BOOLEAN :
          \E i \in 1..Len(svc[p].handles) : RoomOpen(p, i, err, rnd)
    \/ \E p \in engines, rnd \in FreshIds, n \in 1..MaxMembers :
          \E i \in 1..Len(svc[p].handles) : Members(p, i, n, rnd)
    \/ \E p \in engines, rnd \in FreshIds :
          \E i \in 1..Len(svc[p].handles) : DroneError(p, i, rnd)
    \/ \E p \in engines, rnd \in FreshIds :
          \E i \in 1..Len(svc[p].handles) : PeerOpen(p, i, rnd)
    \/ \E p \in engines, rnd \in FreshIds :
          \E i \in 1..Len(svc[p].handles) : ConnOpen(p, i, rnd)
    \/ \E p \in engines, rnd \in FreshIds :
          \E i \in 1..Len(svc[p].handles) : PeerError(p, i, rnd)
    \/ \E p \in engines : IncomingConnection(p, GuestPeerId)
    \/ \E p \in engines : ChannelOpen(p)
    \/ \E p \in engines : Send(p)
    \/ \E p \in engines : Close(p)

SpecRoom == InitMount /\ [][NextRoom]_vars

\* A caller invokes peerService.on(event, cb).
EventKinds == {"data", "connect", "close", "open", "constructor"}
Callbacks == {"f", "g"}
Registered(l) == Len(l.data) + Len(l.connect) + Len(l.close)

On(p, event, cb) ==
    /\ Registered(svc[p].listeners) < MaxListeners
    /\ LET r == OnOf(svc[p].listeners, event, cb)
       IN  svc' = [svc EXCEPT
                      ![p].listeners = r.listeners,
                      ![p].lastOn = [event |-> event, cb |-> cb,
                                     before |-> svc[p].listeners,
                                     thrown |-> r.thrown]]
    /\ UNCHANGED <<Rest, inputs, page, roomProp, role, svcRoomId, loadPromise,
                   sendCalls, channel>>

\* An endpoint as constructed, of either build, before any component has
\* registered a callback.
InitOn ==
    /\ impl \in Impls
    /\ page = [p \in Peers |-> [url |-> "", ctl |-> "mount",
                                 isNewRoom |-> FALSE]]
    /\ svc = [p \in Peers |-> [NoService EXCEPT !.listeners = NoListeners]]
    /\ sendCalls = [p \in Peers |-> <<>>]
    /\ messages = [p \in Peers |-> <<>>]
    /\ userName = [p \in Peers |-> ""]
    /\ chatStep = NoChatStep
    /\ vs = [p \in Peers |-> FreshEngine]
    /\ yt = [p \in Peers |-> NoPlayer]
    /\ timers = [p \in Peers |-> NoTimers]
    /\ budget = MaxInputs
    /\ role = [p \in Peers |-> "none"]
    /\ svcRoomId = [p \in Peers |-> ""]
    /\ roomProp = [p \in Peers |-> ""]
    /\ loadPromise = [p \in Peers |-> "pending"]
    /\ channel = [p \in Peers |-> "none"]
    /\ net = [p \in Peers |-> <<>>]
    /\ now = 0
    /\ inputs = 0
    /\ engines = {2}
    /\ lastStep = NoStep("init")
    /\ lost = <<>>

NextOn == \E p \in engines, event \in EventKinds, cb \in Callbacks :
              On(p, event, cb)

SpecOn == InitOn /\ [][NextOn]_vars

\* onBeforeUnmount of VideoSync.vue: the Player is destroyed (player.value
\* keeps pointing to it) and the interval of the position poll is cleared.
\* Followed from a component whose iframe API has loaded and which has no
\* createPlayer timeout pending.
Unmount(p) ==
    /\ vs[p].mounted /\ vs[p].isAPIReady /\ timers[p].createT = <<>>
    /\ vs' = [vs EXCEPT ![p].mounted = FALSE]
    /\ yt' = IF yt[p].obj # "none"
             THEN [yt EXCEPT ![p].obj = "destroyed", ![p].ev = <<>>] ELSE yt
    /\ timers' = [timers EXCEPT ![p].pollT = -1]
    /\ lastStep' = Step(p, "unmount", <<>>)
    /\ UNCHANGED <<Endpoint, channel, net, now, inputs>>

\* The Sync Engine of the guest while the room is closed or the component
\* torn down; the user and the remote peer act on a mounted component.
NextClose ==
    \/ \E p \in engines : ApiReady(p)
    \/ \E p \in engines : ChannelOpen(p)
    \/ \E p \in engines : CreatePlayer(p)
    \/ \E p \in engines : OnPlayerReady(p)
    \/ \E p \in engines : SeekPoll(p)
    \/ \E p \in engines : SettleTimeout(p)
    \/ \E p \in engines : SyncVideoStateTimeout(p)
    \/ \E p \in engines : BroadcastTimeout(p)
    \/ \E p \in engines, id \in Videos : vs[p].mounted /\ UserLoad(p, id)
    \/ \E p \in engines, m \in RemoteMsgs :
          vs[p].mounted /\ RemoteMessage(p, m)
    \/ \E p \in engines : Close(p)
    \/ \E p \in engines : Unmount(p)
    \/ Tick

SpecClose == Init /\ [][NextClose]_vars

\* ------------------------------------------------ actions of the chat pane
\* setUserName with a non-blank input (the input is shown while no name is set)
SetUserName(p, name) ==
    /\ inputs < budget
    /\ userName[p] = ""
    /\ userName' = [userName EXCEPT ![p] = name]
    /\ inputs' = inputs + 1
    /\ chatStep' = ChatStepOf(p, "setUserName", [type |-> "none"], <<>>)
    /\ UNCHANGED <<Engine, Link, channel, messages>>

\* The user submits the message form.
SendMessage(p, content) ==
    /\ inputs < budget
    /\ Len(messages[p]) < MaxLog
    /\ LET r == SendMessageOf(messages[p], svcRoomId[p], userName[p], content)
       IN  /\ messages' = [messages EXCEPT ![p] = r.log]
           /\ chatStep' = ChatStepOf(p, "post",
                                     [type |-> "post", content |-> content],
                                     r.out)
           /\ net' = Transmit(net, p, r.out)
    /\ inputs' = inputs + 1
    /\ UNCHANGED <<vs, yt, timers, now, lastStep, Link, channel, userName>>

\* What a remote peer can send to the chat pane.
Snapshots ==
    {<<>>, <<ChatEntry("ann", "hi")>>,
     <<ChatEntry(SystemName, Welcome), ChatEntry("bob", "yo")>>}
RemoteChatMsgs ==
    {ChatMsg(n, c) : n \in Names \cup {RoomA}, c \in {"hi"}}
    \cup {HistoryMsg(l) : l \in Snapshots}

\* A chat or chat_history message of a remote peer arrives.
RemoteChat(p, m) ==
    /\ inputs < budget
    /\ channel[p] = "open"
    /\ m.type = "chat" => Len(messages[p]) < MaxLog
    /\ ChatReceive(p, m)
    /\ inputs' = inputs + 1
    /\ UNCHANGED <<Engine, Link, channel, userName>>

\* The page of peer w after the handshake. ScaleDrone build: the data channel
\* is about to open. PeerJS build: the host's incoming connection is about to
\* open; the guest's connection is open, and no connect callback ran for it.
InitChat ==
    \E im \in Impls, w \in Peers :
        /\ impl = im
        /\ engines = {w}
        /\ page = [p \in Peers |-> JoinedPage(Roles[p])]
        /\ svc = [p \in Peers |->
              IF im = "peerjs" /\ Roles[p] = "guest"
              THEN [JoinedService(Roles[p]) EXCEPT !.opened = 1]
              ELSE JoinedService(Roles[p])]
        /\ sendCalls = [p \in Peers |-> <<>>]
        /\ messages = [p \in Peers |-> <<>>]
        /\ userName = [p \in Peers |-> ""]
        /\ chatStep = NoChatStep
        /\ vs = [p \in Peers |-> FreshEngine]
        /\ yt = [p \in Peers |-> NoPlayer]
        /\ timers = [p \in Peers |-> NoTimers]
        /\ budget = MaxInputs + 1
        /\ role = Roles
        /\ svcRoomId = [p \in Peers |-> RoomA]
        /\ roomProp = [p \in Peers |-> RoomA]
        /\ loadPromise = [p \in Peers |-> "resolved"]
        /\ channel = [p \in Peers |->
              IF im = "peerjs" /\ Roles[p] = "guest" THEN "open"
              ELSE "connecting"]
        /\ net = [p \in Peers |-> <<>>]
        /\ now = 0
        /\ inputs = 0
        /\ lastStep = NoStep("init")
        /\ lost = <<>>

NextChat ==
    \/ \E p \in engines : ChannelOpen(p)
    \/ \E p \in engines, n \in Names : SetUserName(p, n)
    \/ \E p \in engines, c \in Typed : SendMessage(p, c)
    \/ \E p \in engines, m \in RemoteChatMsgs : RemoteChat(p, m)

SpecChat == InitChat /\ [][NextChat]_vars

\* The chat panes of the host and the guest of one room from the handshake
\* on: the users name themselves and post, before and after the link opens.
InitJoin == InitRoom(Peers, 1, FALSE, MaxInputs + 1)

NextJoin ==
    \/ \E p \in engines : ChannelOpen(p)
    \/ \E p \in engines, n \in Names : SetUserName(p, n)
    \/ \E p \in engines, c \in Typed : SendMessage(p, c)
    \/ \E p \in engines : Deliver(p)

SpecJoin == InitJoin /\ [][NextJoin]_vars

\* The names saved on the two pages: the host's user is ann, the guest's bob.
SavedNames == [p \in Peers |-> IF Roles[p] = "host" THEN "ann" ELSE "bob"]

\* The room a page created when the join of RoomA was rejected.
FallbackRoom == "b2"
\* The endpoint of that page once the link of the new room has opened: the
\* handle of the rejected joinRoom, then the handle of the createRoom called
\* instead.
FallenService ==
    [LinkedService("host") EXCEPT
        !.handles = <<[NewHandle("join", RoomA) EXCEPT
                          !.st = "failed", !.res = "rejected"],
                      [NewHandle("create", FallbackRoom) EXCEPT
                          !.st = "roomOpen", !.res = "resolved",
                          !.members = 1, !.webrtc = TRUE]>>]

\* The chat panes of the host and the guest of one room while the link is
\* open, both users named and posting, no media loaded. The host created the
\* room at mount, or (fell) created it after its join of another room was
\* rejected.
InitTalk ==
    \E fell \in BOOLEAN :
        LET room == IF fell THEN FallbackRoom ELSE RoomA
            fallen(p) == fell /\ Roles[p] = "host"
        IN  /\ impl = "drone"
            /\ page = [p \in Peers |->
                  [url |-> IF Roles[p] = "guest" THEN room
                           ELSE IF fell THEN RoomA ELSE "",
                   ctl |-> "done", isNewRoom |-> Roles[p] = "host"]]
            /\ svc = [p \in Peers |->
                  IF fallen(p) THEN FallenService
                  ELSE [LinkedService(Roles[p]) EXCEPT !.handles[1].room = room]]
            /\ sendCalls = [p \in Peers |-> <<>>]
            /\ messages = [p \in Peers |-> <<ChatEntry(SystemName, Welcome)>>]
            /\ userName = SavedNames
            /\ chatStep = NoChatStep
            /\ vs = [p \in Peers |-> FreshEngine]
            /\ yt = [p \in Peers |-> NoPlayer]
            /\ timers = [p \in Peers |-> NoTimers]
            /\ budget = MaxInputs + 1
            /\ role = Roles
            /\ svcRoomId = [p \in Peers |-> room]
            /\ roomProp = [p \in Peers |-> room]
            /\ loadPromise = [p \in Peers |->
                  IF fallen(p) THEN "rejected" ELSE "resolved"]
            /\ channel = [p \in Peers |-> "open"]
            /\ net = [p \in Peers |-> <<>>]
            /\ now = 0
            /\ inputs = 0
            /\ engines = Peers
            /\ lastStep = NoStep("init")
            /\ lost = <<>>

NextTalk ==
    \/ \E p \in engines, c \in Typed : SendMessage(p, c)
    \/ \E p \in engines : Deliver(p)

SpecTalk == InitTalk /\ [][NextTalk]_vars

\* The page of peer w, video pane and chat pane, before the data channel
\* opens: the user names themself, posts and loads videos.
InitPage ==
    \E w \in Peers, watching \in BOOLEAN :
        InitRoom({w}, w, watching, MaxInputs + 1)

NextPage ==
    \/ \E p \in engines : ApiReady(p)
    \/ \E p \in engines : ChannelOpen(p)
    \/ \E p \in engines : CreatePlayer(p)
    \/ \E p \in engines : OnPlayerReady(p)
    \/ \E p \in engines, id \in Videos : UserLoad(p, id)
    \/ \E p \in engines, n \in Names : SetUserName(p, n)
    \/ \E p \in engines, c \in Typed : SendMessage(p, c)

SpecPage == InitPage /\ [][NextPage]_vars

\* ===================================================================== claims
SeekCount(out) == Cardinality({i \in 1..Len(out) : out[i].type = "seek"})
LocalEventHandlers == {"stateChange", "rateChange", "poll"}

WindowAlwaysCloses ==
    \A p \in engines : vs[p].isSyncing => timers[p].syncT >= 0

\* C3: late join. Once the guest has connected to a host watching media 1 and
\* the handshake has run to completion, the guest is Synced on the host's
\* media with its Player within the drift threshold of the host's.
HandshakeDone ==
    /\ \A p \in Peers : /\ channel[p] = "open" /\ net[p] = <<>>
                        /\ vs[p].isAPIReady /\ yt[p].ev = <<>>
                        /\ timers[p].createT = <<>> /\ timers[p].svsT = <<>>
                        /\ timers[p].syncT = -1 /\ ~vs[p].errorMessage
    /\ EngineSynced(vs[1], yt[1]) /\ yt[1].pos >= LatePos
LateJoinConverges ==
    HandshakeDone =>
        /\ EngineSynced(vs[2], yt[2]) /\ yt[2].obj = "ready"
        /\ vs[2].currentVideoId = vs[1].currentVideoId
        /\ Abs(yt[2].pos - yt[1].pos) <= SeekPollThreshold

EarlySendNeverTransmitted ==
    \A p \in engines : \A k \in 1..Len(sendCalls[p]) :
        sendCalls[p][k].early => sendCalls[p][k].st # "sent"

\* C6: with a roomId parameter the controller calls joinRoom first and, if
\* and only if that call rejects, createRoom next; when the fallback resolves
\* the page is the host of a new room whose id replaced the requested one.
\* With no parameter it calls createRoom once and never joinRoom.
FallsBackToCreate ==
    \A p \in engines :
        LET H == svc[p].handles
            g == page[p]
        IN  /\ g.url = "" => \A i \in 1..Len(H) : H[i].kind = "create"
            /\ (g.url = "" /\ g.ctl # "mount") => Len(H) = 1
            /\ (g.url # "" /\ Len(H) >= 1)
               => H[1].kind = "join" /\ H[1].room = g.url
            /\ (g.url # "" /\ Len(H) >= 1 /\ H[1].res = "rejected")
               => Len(H) = 2 /\ H[2].kind = "create"
            /\ Len(H) = 2 => H[1].res = "rejected"
            /\ (Len(H) = 2 /\ H[2].res = "resolved")
               => /\ g.ctl = "done" /\ g.isNewRoom /\ role[p] = "host"
                  /\ roomProp[p] = svcRoomId[p] /\ roomProp[p] = H[2].room
                  /\ roomProp[p] # g.url

\* A join was rejected and the room created instead is up.
FallsBackWitness ==
    \E p \in engines :
        /\ page[p].url # "" /\ page[p].ctl = "done"
        /\ Len(svc[p].handles) = 2
        /\ svc[p].handles[1].res = "rejected"
        /\ svc[p].handles[2].res = "resolved"

\* C7: a joinRoom whose room reports more than 2 members is rejected and its
\* members handler starts no WebRTC link; one whose room reports 1 or 2
\* members resolves (and starts the link).
JoinFullRejected ==
    \A p \in engines : \A i \in 1..Len(svc[p].handles) :
        LET h == svc[p].handles[i]
        IN  h.kind = "join" =>
              /\ h.members > 2 => h.res = "rejected" /\ ~h.webrtc
              /\ h.members \in {1, 2} => h.res = "resolved" /\ h.webrtc

\* A joiner was told the room has three members; it has no RTCPeerConnection.
JoinFullWitness ==
    \E p \in engines :
        /\ Len(svc[p].handles) >= 1 /\ svc[p].handles[1].kind = "join"
        /\ svc[p].handles[1].members > 2
        /\ svc[p].handles[1].res = "rejected"
        /\ svc[p].pc = 0 /\ channel[p] = "none"

\* C8: a chat_history replaces the log exactly when the log is empty and the
\* snapshot is not; otherwise the log is left as it was. A peer therefore
\* adopts at most one snapshot, the first non-empty one.
SnapshotFirstWins ==
    /\ chatStep.h = "chat_history"
       => messages[chatStep.p] =
              IF chatStep.before = <<>> /\ chatStep.m.messages # <<>>
              THEN chatStep.m.messages ELSE chatStep.before
    /\ chatStep.adopted <= 1

\* A peer that adopted its first snapshot ignored a second, different one.
SnapshotFirstWinsWitness ==
    /\ chatStep.h = "chat_history"
    /\ chatStep.seen = 2 /\ chatStep.adopted = 1
    /\ chatStep.before \in Snapshots \ {<<>>}
    /\ chatStep.m.messages # <<>>
    /\ chatStep.m.messages # chatStep.before
    /\ messages[chatStep.p] = chatStep.before

\* C9: when its Player signals ready, a guest hands exactly one
\* request_video_info to send() and a host none.
GuestRequestsOnReady ==
    lastStep.h = "ready"
    => lastStep.out = IF role[lastStep.p] = "guest" THEN <<RequestMsg>>
                      ELSE <<>>

\* C10: a request_video_info is answered if and only if the media id is set
\* and the Player exists and is ready, and the answer carries the media id and
\* the Player's position, rate and paused flag as they are when it is handled.
AnswersRequestIffSynced ==
    lastStep.h = "request_video_info"
    => LET p == lastStep.p
       IN  lastStep.out =
               IF /\ vs[p].currentVideoId # 0 /\ vs[p].isPlayerReady
                  /\ yt[p].obj = "ready"
               THEN <<VideoInfoMsg(vs[p].currentVideoId, yt[p].pos,
                                   yt[p].rate, yt[p].pstate # "playing")>>
               ELSE <<>>

\* A playing peer, past its last polled position, answered a request.
AnswersRequestWitness ==
    /\ lastStep.h = "request_video_info" /\ Len(lastStep.out) = 1
    /\ ~lastStep.out[1].paused
    /\ lastStep.out[1].time > vs[lastStep.p].lastCheckedTime

\* ------------------------------------------------------- the engine's state
\* The states of the engine: Idle (no media id), Loading (media id set, the
\* Player not ready), Synced (media id set, the Player exists and is ready).
EngineState(p) ==
    IF vs[p].currentVideoId = 0 THEN "Idle"
    ELSE IF yt[p].obj = "ready" THEN "Synced" ELSE "Loading"

VideoInfoApplied ==
    lastStep.h = "syncVideoState" /\ lastStep.live
    => LET p == lastStep.p
           d == lastStep.arg
       IN  /\ yt[p].rate = d.rate
           /\ yt[p].pos = d.time
           /\ IsPaused(yt[p]) = d.paused

\* The Player is in the state message m asks for.
InStateOf(y, m) ==
    CASE m.type = "pause" -> IsPaused(y)
      [] m.type = "play" -> ~IsPaused(y)
      [] m.type = "seek" -> Abs(y.pos - m.time) <= SeekApplyThreshold
      [] m.type = "speedChange" -> y.rate = m.rate
      [] OTHER -> TRUE

\* C13: last message wins. Once a Synced peer has handled a play, pause, seek
\* or speedChange message, its Player is in the state of that message,
\* whether or not the window an earlier message opened was still open.
LastMessageWins ==
    /\ lastStep.h \in EchoTypes /\ lastStep.arg.type = lastStep.h
    /\ lastStep.live /\ EngineState(lastStep.p) = "Synced"
    => InStateOf(yt[lastStep.p], lastStep.arg)

Released(p) ==
    /\ channel[p] = "none" /\ svc[p].pc = 0 /\ svc[p].connections = {}
    /\ \A i \in 1..Len(svc[p].handles) :
          svc[p].handles[i].st \in {"closed", "failed"}

\* close() has returned and neither createRoom nor joinRoom was called since.
Closed(p) == svc[p].closes > 0 /\ svc[p].atClose = Len(svc[p].handles)

\* C16: once close() has returned, every peer link and every transport
\* handle of the endpoint is released.
CloseReleasesAll ==
    \A p \in engines : Closed(p) => Released(p)

\* C16, idempotence: a call of close() on an endpoint close() has already
\* returned on leaves the endpoint as it is.
CloseIdempotent ==
    [][\A p \in engines :
          Close(p) /\ Closed(p)
          => UNCHANGED <<channel, loadPromise, svcRoomId>>
             /\ svc'[p].handles = svc[p].handles /\ svc'[p].pc = svc[p].pc
             /\ svc'[p].connections = svc[p].connections]_vars

TimerCallbacks == {"poll", "settle", "syncVideoState", "broadcast"}

\* C15: no timer callback of the Sync Engine (position poll, end of the
\* suppression window, delayed video_info broadcast, delayed syncVideoState)
\* runs once close() has returned or the component has been torn down.
NoTimerAfterClose ==
    lastStep.h \in TimerCallbacks
    => vs[lastStep.p].mounted /\ ~Closed(lastStep.p)

\* C17: a call of on() with data, connect or close appends the callback to
\* that list and throws nothing; a call with any other event kind throws the
\* unsupported-event error and leaves every list as it was.
OnRegistersOrRejects ==
    \A p \in engines :
        LET o == svc[p].lastOn
        IN  o.event # ""
            => IF o.event \in {"data", "connect", "close"}
               THEN /\ o.thrown = "none"
                    /\ svc[p].listeners =
                           [o.before EXCEPT ![o.event] = Append(@, o.cb)]
               ELSE /\ o.thrown = "Unsupported event"
                    /\ svc[p].listeners = o.before

\* C18: a post by a user with a name set and a non-blank content appends
\* exactly one entry, the name and the content, at the end of the log and
\* hands exactly one chat message with the name and the content to send(),
\* whether or not the endpoint can transmit it.
PostAppendsAndBroadcasts ==
    /\ chatStep.h = "post" /\ userName[chatStep.p] # ""
    /\ Trim(chatStep.m.content) # ""
    => LET p == chatStep.p
       IN  /\ messages[p] =
                  Append(chatStep.before,
                         [sender |-> userName[p],
                          content |-> chatStep.m.content])
           /\ chatStep.out =
                  <<[type |-> "chat", sender |-> userName[p],
                     content |-> chatStep.m.content]>>

\* A named user posted to a log that already held entries while the data
\* channel was not open: the broadcast failed, the entry was appended.
PostAppendsWitness ==
    /\ chatStep.h = "post" /\ userName[chatStep.p] # ""
    /\ Trim(chatStep.m.content) # ""
    /\ ~CanTransmit(chatStep.p)
    /\ Len(chatStep.before) > 0
    /\ Len(messages[chatStep.p]) = Len(chatStep.before) + 1

\* C19: on a connect event the chat pane hands exactly one chat_history to
\* send() if its log held an entry when the event was raised, and nothing
\* if the log was empty.
SnapshotOnConnect ==
    chatStep.h = "connect"
    => IF Len(chatStep.before) > 0
       THEN /\ Len(chatStep.out) = 1
            /\ chatStep.out[1].type = "chat_history"
       ELSE chatStep.out = <<>>

\* A media id is set and the Player created for it has not signalled ready.
AwaitingPlayer(p) ==
    /\ vs[p].currentVideoId # 0
    /\ ~(yt[p].obj = "ready" /\ yt[p].video = vs[p].currentVideoId)

\* C20: from the load of a media until the Player created for it signals
\* ready, the peer answers neither a connect event nor a request_video_info
\* with a video_info.
LoadingSendsNoVideoInfo ==
    /\ lastStep.h \in {"connect", "request_video_info"}
    /\ AwaitingPlayer(lastStep.p)
    => lastStep.out = <<>>

\* The Player has reported an error and no media was loaded since.
Errored(p) == vs[p].errorMessage /\ vs[p].currentVideoId = 0

\* The endpoint's session is up: its transport handle was not closed and has
\* not failed, and its peer link is there (connecting or open).
SessionOpen(p) ==
    /\ loadPromise[p] = "resolved" /\ channel[p] \in {"connecting", "open"}
    /\ svc[p].closes = 0 /\ svc[p].pc > 0
    /\ \A i \in 1..Len(svc[p].handles) : Live(svc[p].handles[i])

\* C21: when the Player reports an error the engine is Idle with the error
\* message shown, the session and the peer link are still up and the handler
\* hands nothing to send(); from then on, until a media is loaded, the peer
\* answers neither a request_video_info nor a connect event.
ErrorReturnsToIdle ==
    /\ lastStep.h = "error"
       => /\ Errored(lastStep.p) /\ EngineState(lastStep.p) = "Idle"
          /\ lastStep.out = <<>> /\ SessionOpen(lastStep.p)
    /\ (lastStep.h \in {"connect", "request_video_info"}
        /\ Errored(lastStep.p))
       => lastStep.out = <<>>

\* A peer whose Player reported an error, the Player still there and ready,
\* left a request_video_info unanswered.
ErrorReturnsToIdleWitness ==
    /\ lastStep.h = "request_video_info" /\ Errored(lastStep.p)
    /\ yt[lastStep.p].obj = "ready" /\ vs[lastStep.p].isPlayerReady
    /\ channel[lastStep.p] = "open" /\ lastStep.out = <<>>

\* Nothing is in flight and nothing is pending on either peer.
Quiet ==
    \A p \in Peers : /\ net[p] = <<>> /\ yt[p].ev = <<>>
                     /\ timers[p].syncT = -1 /\ ~TimerDue(timers[p])

\* The two Players are in the same paused/playing state, within the drift
\* threshold of each other.
PlayersAgree ==
    /\ IsPaused(yt[1]) = IsPaused(yt[2])
    /\ Abs(yt[1].pos - yt[2].pos) <= SeekPollThreshold

\* C22: self-healing. Once a period of the position poll has passed since a
\* seek, play or pause was lost between two Synced peers, and nothing is in
\* flight or pending, the receiver's Player is back at the sender's position
\* and paused flag.
SelfHealsAfterLoss ==
    (Len(lost) = 1 /\ now >= lost[1].at + SeekPollInterval /\ Quiet)
    => PlayersAgree

\* C23: with no scrub by the user and no message from the remote peer, the
\* position poll of a peer playing at a rate the Player accepts hands no seek
\* to send().
PlaybackEmitsNoSeek ==
    lastStep.h = "poll" => SeekCount(lastStep.out) = 0

\* How many times callback cb is in the sequence of invocations q.
Invocations(cb, q) == Cardinality({i \in 1..Len(q) : q[i] = cb})

\* C24: every callback registered with on("connect") has been invoked once
\* for each peer link of the endpoint that has opened, on the host's endpoint
\* and on the guest's alike.
ConnectNotifiesBoth ==
    \A p \in engines :
        \A i \in 1..Len(svc[p].listeners.connect) :
            Invocations(svc[p].listeners.connect[i], svc[p].notified)
                = svc[p].opened

\* C25: in the build that keeps a connection table, a peer id is in the table
\* exactly while that peer's link is open (its open event raised, its close
\* event not yet), and the table is empty once close() has returned.
ConnectionTableTracksLinks ==
    impl = "peerjs" =>
        \A p \in engines :
            /\ svc[p].connections # {} <=> channel[p] = "open"
            /\ Closed(p) => svc[p].connections = {}

\* C26: one Room per endpoint. Of the transport handles an endpoint has
\* created, only the one of the latest createRoom / joinRoom call is live:
\* every earlier one (its signaling connection, its room subscription and
\* their handlers) has failed or was closed.
OneRoomActive ==
    \A p \in engines :
        \A i \in 1..Len(svc[p].handles) :
            i < Len(svc[p].handles) => ~Live(svc[p].handles[i])

\* C27: no re-announcement. A Synced peer whose user does nothing hands no
\* seek to send() once it has received a remote seek: not from a Player
\* callback inside the suppression window, and not from the position poll
\* after the window has closed.
NoSeekReannounced ==
    inputs > 0 => SeekCount(lastStep.out) = 0

\* The poll that just ran on peer p found its reference up to date: the
\* Player is playing and is exactly one poll period of playback past
\* lastCheckedTime, and apart from what the poll itself sent nothing is in
\* flight, no Player event is pending and no suppression window is open.
SteadyPoll(p) ==
    /\ lastStep.h = "poll" /\ lastStep.p = p
    /\ lastStep.live /\ ~lastStep.syncing /\ ~IsPaused(yt[p])
    /\ lastStep.diff = yt[p].rate * SeekPollInterval
    /\ net[p] = <<>> /\ net[Other(p)] = lastStep.out
    /\ \A q \in Peers : yt[q].ev = <<>> /\ ~vs[q].isSyncing

\* C28: no infinite update cycle. After one change by one user, with no
\* message lost, a position poll that runs in the steady state (reference up
\* to date, nothing in flight or pending) broadcasts nothing; a poll that
\* does broadcast there does so again at every period, for ever.
ChangeSettles ==
    \A p \in Peers :
        (inputs = 1 /\ lost = <<>> /\ SteadyPoll(p)) => lastStep.out = <<>>

\* C29: a send() called once the join has failed, the fallback createRoom has
\* resolved and the peer link has opened is transmitted to the peer.
SendAfterFallbackDelivers ==
    \A p \in engines : \A k \in 1..Len(sendCalls[p]) :
        sendCalls[p][k].fallback => sendCalls[p][k].st = "sent"

\* The link is open on both sides, both connect events were handled, and
\* nothing is in flight or pending on either peer.
Delivered ==
    /\ \A p \in Peers : channel[p] = "open" /\ svc[p].opened = 1
    /\ \A p \in Peers : timers[p].createT = <<>> /\ timers[p].svsT = <<>>
    /\ Quiet

\* C30: media convergence on connect. Two peers that were Synced on
\* different media when their link opened hold the same media id once
\* everything in flight has been delivered.
MediaConverges ==
    Delivered => vs[1].currentVideoId = vs[2].currentVideoId

\* C31: every video_info a peer hands to send() carries the media id that is
\* the peer's current media id at that moment, the delayed broadcast of a
\* local load included, whatever was loaded in between.
VideoInfoCarriesCurrentMedia ==
    \A i \in 1..Len(lastStep.out) :
        lastStep.out[i].type = "video_info"
        => lastStep.out[i].videoId = vs[lastStep.p].currentVideoId

\* C32: a received seek moves the position only. Whenever a peer has handled
\* a seek message, its Player's paused/playing flag and its rate are what they
\* were when the handler began.
SeekMovesPositionOnly ==
    \A r \in {"host", "guest"} :
        LET a == lastStep.cmp[r]
        IN  a.h = "seek"
            => IsPaused(a.y2) = IsPaused(a.y) /\ a.y2.rate = a.y.rate

\* C33: a received seek repositions the Player if and only if the Player's
\* position is more than 0.5 s from the message's time (at exactly 0.5 s the
\* position is left alone); either way, once the seek is handled the
\* suppression window is open, its timer set to the settle delay, and
\* lastSeekTime is the message's time.
SeekRepositionsBeyondHalfSecond ==
    lastStep.h = "seek"
    => LET p == lastStep.p
           a == lastStep.cmp[role[p]]
       IN  /\ yt[p].pos = IF Abs(a.y.pos - a.arg.time) > SeekApplyThreshold
                          THEN a.arg.time ELSE a.y.pos
           /\ vs[p].isSyncing /\ timers[p].syncT = SettleDelay
           /\ vs[p].lastSeekTime = a.arg.time

\* Every entry of the log is a System entry: the user has posted nothing and
\* no message of another user was received.
NothingAuthored(log) == \A i \in 1..Len(log) : log[i].sender = SystemName

\* Every entry of snapshot s is in log.
Contains(log, s) ==
    \A i \in 1..Len(s) : \E j \in 1..Len(log) : log[j] = s[i]

\* C34: once a guest that has authored no chat message has handled the
\* chat_history the host sent when the link opened, the guest's log contains
\* the entries of that snapshot, the host's posts from before the connection.
LateJoinerAdoptsHistory ==
    /\ chatStep.h = "chat_history" /\ role[chatStep.p] = "guest"
    /\ NothingAuthored(chatStep.before)
    => Contains(messages[chatStep.p], chatStep.m.messages)

\* C35: the chat_history transmitted for a connect event holds exactly the
\* entries the sender's log held when the connect listener tested it.
SnapshotIsLogAtConnect ==
    (chatStep.h = "connect" /\ chatStep.out # <<>>)
    => chatStep.out[1].messages = chatStep.before

\* The entries of a log whose sender is n, in the order of the log.
ByPoster(log, n) ==
    LET PostedByN(e) == e.sender = n
    IN  SelectSeq(log, PostedByN)

\* The entries the chat messages in flight to peer q will add to its log.
IsChat(m) == m.type = "chat"
ChatInFlight(q) ==
    LET chats == SelectSeq(net[q], IsChat)
    IN  [i \in 1..Len(chats) |-> ChatEntry(chats[i].sender, chats[i].content)]

\* C36: while the link is open, a post adds exactly one entry to the poster's
\* log and puts exactly one chat message in flight, and the entries of one
\* poster in the other peer's log, followed by those still in flight, are the
\* poster's own entries in the poster's log: each once, in the order posted.
ChatDeliveredOnceInOrder ==
    /\ \A p \in Peers :
          ByPoster(messages[Other(p)], userName[p]) \o ChatInFlight(Other(p))
              = ByPoster(messages[p], userName[p])
    /\ (chatStep.h = "post" /\ Trim(chatStep.m.content) # "")
       => LET p == chatStep.p
              e == ChatEntry(userName[p], chatStep.m.content)
          IN  /\ messages[p] = Append(chatStep.before, e)
              /\ net[Other(p)] # <<>>
              /\ net[Other(p)][Len(net[Other(p)])]
                     = ChatMsg(e.sender, e.content)

\* C37: a chat log is append-only. Whatever chat handler ran last (connect
\* listener, post, received chat or chat_history, setUserName) left the log as
\* it was, or appended one entry at its end, or, the log being empty, replaced
\* it by the non-empty snapshot it received.
ChatLogAppendOnly ==
    chatStep.p \in engines
    => LET log == messages[chatStep.p]
       IN  \/ log = chatStep.before
           \/ /\ Len(log) = Len(chatStep.before) + 1
              /\ SubSeq(log, 1, Len(chatStep.before)) = chatStep.before
           \/ /\ chatStep.h = "chat_history" /\ chatStep.before = <<>>
              /\ log = chatStep.m.messages /\ log # <<>>

\* A received chat was appended to a log that had begun as an adopted
\* snapshot of two entries: the snapshot's entries are still there, in order.
ChatLogAppendWitness ==
    /\ chatStep.h = "chat" /\ Len(chatStep.before) = 2
    /\ chatStep.before \in Snapshots
    /\ Len(messages[chatStep.p]) = 3
    /\ SubSeq(messages[chatStep.p], 1, 2) = chatStep.before

\* C38: in a room of three or more, the video_info a peer sends in answer to
\* another peer's request changes the requester only. A peer that is Synced
\* on the media id of the video_info when it arrives (it did not ask) has no
\* reload of its Player and no state replay scheduled when the handler ends.
AnswerLeavesSyncedPeerAlone ==
    \A r \in {"host", "guest"} :
        LET a == lastStep.cmp[r]
        IN  /\ a.h = "video_info" /\ lastStep.h = "video_info"
            /\ role[lastStep.p] = r
            /\ EngineSynced(a.v, a.y)
            /\ a.v.currentVideoId = a.arg.videoId
            => /\ timers[lastStep.p].createT = <<>>
               /\ timers[lastStep.p].svsT = <<>>
               /\ a.v2 = a.v /\ a.y2 = a.y

\* C39: at most one settle timeout is pending per peer; a message handled
\* while the window is open sets no timeout and leaves the pending one as it
\* is; and whenever the flag is set, one timeout is pending that clears it
\* within one settle delay of the message that set it.
SuppressedTypes == {"pause", "play", "seek", "speedChange"}
OneSettleTimerClosesWindow ==
    /\ [](\A p \in engines :
            /\ timers[p].syncN <= 1
            /\ vs[p].isSyncing
               => timers[p].syncN = 1 /\ timers[p].syncT \in 0..SettleDelay)
    /\ [][\A p \in engines :
            /\ vs[p].isSyncing
            /\ lastStep'.p = p /\ lastStep'.h \in SuppressedTypes
            => timers'[p] = timers[p] /\ vs'[p].isSyncing]_vars
====
